---- MODULE Spec2Model ----
(***************************************************************************)
(* Model of the K-12 school matching engine                                *)
(* (src/mcp_servers/tools/school_matcher.py).                              *)
(*                                                                         *)
(* Encoding of Python values                                               *)
(*   - A dict is a record; every key the code reads is a field.  A field   *)
(*     holds Absent (the key is not in the dict), None (the key maps to    *)
(*     Python None) or Val(v).                                             *)
(*   - A str the code transforms (a city name) is a sequence of            *)
(*     one-character strings, so that str.upper() is computed character by *)
(*     character; a str it only copies is a TLA+ string.                   *)
(*   - Numbers are fixed point integers:                                   *)
(*       graduation_rate        whole percent                              *)
(*       student_teacher_ratio  tenths          (18.0 is 180)              *)
(*       base_match_score       thousandths     (0.85 is 850)              *)
(*       distance_score         thousandths     (1.0 is 1000, 0.5 is 500)  *)
(*       match_score            tenths of a percent (85.0 is 850)          *)
(*   - A call's outcome is <<"return", value>> or <<"raise", exception>>;  *)
(*     NotCalled before the call.                                          *)
(***************************************************************************)
EXTENDS Integers, Sequences, FiniteSets, TLC

VARIABLES
    student_profile,   \* the student_profile argument of the call under study
    school,            \* _generate_match_reasoning: the school argument
    reasons,           \* _generate_match_reasoning: outcome of the call
    schools,           \* rank_schools: the schools argument (the caller's list)
    rank_ret,          \* rank_schools: outcome of the call
    fp_round_up,       \* operands at which round(x, 1) lands on the upper tenth
    results,           \* match_schools: rows the query job yields, in order
    ms_pc,             \* match_schools: position in the function body
    query,             \* match_schools: the query built from the profile
    ms_row,            \* match_schools: index of the next row of results
    seen_schools,      \* match_schools: the seen_schools dict, in insertion order
    ms_exc,            \* match_schools: the exception raised in the try block
    ms_ret,            \* match_schools: outcome of the call
    ranked_schools,    \* generate_school_recommendations: the ranked_schools argument
    rec_ret,           \* generate_school_recommendations: outcome of the call
    tool_context,      \* warehouse tools: tool_context.state, or None for no context
    tool_call,         \* warehouse tools: the tool called and what its queries met
    tool_ret,          \* warehouse tools: outcome of the call
    limit_arg,         \* _build_matching_query: the limit argument
    built_query,       \* _build_matching_query: outcome of the call
    q_stage,           \* the matching query: the stage that produced q_rows
    q_rows,            \* the matching query: the rows of the current stage
    fp_sum_below,      \* scores whose float sum lands below the decimal value
    requests,          \* concurrent match_schools calls: the arguments of each
    req_pc,            \* concurrent match_schools calls: position of each
    req_query,         \* concurrent match_schools calls: the local variable query
    req_ret,           \* concurrent match_schools calls: outcome of each
    query_file,        \* the contents of /tmp/school_match_query.sql
    ins_query,         \* get_insights_and_recommendations: the query argument
    ins_pc,            \* get_insights_and_recommendations: position in the body
    ins_ret,           \* get_insights_and_recommendations: outcome of the call
    recommender_agent, \* insights_agent_tool: the global _recommender_agent
    critique_agent,    \* insights_agent_tool: the global _critique_agent
    agent_runs,        \* requests sent to the two sub-agents, in order
    bq_calls,          \* query_bigquery: the calls made on the context, in order
    objects,           \* rank_schools on objects: the dicts of the heap
    rs_schools,        \* rank_schools on objects: the list schools, as references
    rs_pc,             \* rank_schools on objects: position in the body
    rs_i,              \* rank_schools on objects: index of the loop over schools
    rs_ranked,         \* rank_schools on objects: the list ranked_schools
    rs_ret,            \* rank_schools on objects: outcome of the call
    rerank_ret,        \* rank_schools on its own result: outcome of the call
    session_id,        \* run_interactive_mode: the session of the conversation
    user_id,           \* run_interactive_mode: the user of the conversation
    im_pc,             \* run_interactive_mode: position in the loop
    user_input,        \* run_interactive_mode: the stripped line read last
    im_events,         \* run_interactive_mode: lines read, exceptions, run events
    im_runs,           \* run_interactive_mode: the calls of runner.run
    im_out             \* run_interactive_mode: the message printed last

warehouseVars == <<tool_context, tool_call, tool_ret>>

queryVars == <<limit_arg, built_query, q_stage, q_rows, fp_sum_below>>

requestVars == <<requests, req_pc, req_query, req_ret, query_file>>

insightVars ==
    <<ins_query, ins_pc, ins_ret, recommender_agent, critique_agent, agent_runs>>

objectVars == <<objects, rs_schools, rs_pc, rs_i, rs_ranked, rs_ret>>

interactiveVars ==
    <<session_id, user_id, im_pc, user_input, im_events, im_runs, im_out>>

laterVars ==
    <<requestVars, insightVars, bq_calls, objectVars, rerank_ret, interactiveVars>>

vars == <<student_profile, school, reasons, schools, rank_ret, fp_round_up,
          results, ms_pc, query, ms_row, seen_schools, ms_exc, ms_ret,
          ranked_schools, rec_ret, warehouseVars, queryVars, laterVars>>

----------------------------------------------------------------------------
(* Python values *)

Absent == <<"absent">>
None == <<"none">>
Val(v) == <<"val", v>>

NotCalled == <<"not_called">>
Return(v) == <<"return", v>>
Raise(e) == <<"raise", e>>

\* dict.get(key): None when the key is absent
Get(f) == IF f = Absent THEN None ELSE f

\* dict.get(key, default)
GetDefault(f, d) == IF f = Absent THEN d ELSE f

\* truth value of a number or None
TruthyNum(f) == f[1] = "val" /\ f[2] # 0

\* truth value of a str or None
TruthyStr(f) == f[1] = "val" /\ f[2] # <<>>

UpperChar(c) ==
    CASE c = "s" -> "S"
      [] c = "f" -> "F"
      [] c = "o" -> "O"
      [] c = "z" -> "Z"
      [] OTHER -> c

\* str.upper()
Upper(s) == [i \in 1..Len(s) |-> UpperChar(s[i])]

\* concatenation of a sequence of sequences
RECURSIVE Concat(_)
Concat(ss) == IF ss = <<>> THEN <<>> ELSE Head(ss) \o Concat(Tail(ss))

\* l[:n]
Take(l, n) == SubSeq(l, 1, IF Len(l) < n THEN Len(l) ELSE n)

----------------------------------------------------------------------------
(* Student profile *)

\* location.get("city", "").upper() raises AttributeError when city is None
HomeCityRaises(profile) ==
    /\ profile.location[1] = "val"
    /\ profile.location[2].city = None

\* location = student_profile.get("location", {})
\* home_city = location.get("city", "").upper() if location else ""
\* (a location dict without a city key stands for the empty dict as well:
\*  both give "")
HomeCity(profile) ==
    IF profile.location[1] # "val" THEN <<>>
    ELSE Upper(GetDefault(profile.location[2].city, Val(<<>>))[2])

----------------------------------------------------------------------------
(* _generate_match_reasoning *)

GradReason(s) ==
    LET grad_rate == Get(s.graduation_rate) IN
    IF TruthyNum(grad_rate) /\ grad_rate[2] >= 85
        THEN << <<"High graduation rate", grad_rate>> >>
    ELSE IF TruthyNum(grad_rate) /\ grad_rate[2] >= 75
        THEN << <<"Good graduation rate", grad_rate>> >>
    ELSE <<>>

ClassSizeReason(s) ==
    LET str_ratio == Get(s.student_teacher_ratio) IN
    IF TruthyNum(str_ratio) /\ str_ratio[2] <= 180
        THEN << <<"Small class sizes", str_ratio>> >>
    ELSE IF TruthyNum(str_ratio) /\ str_ratio[2] <= 220
        THEN << <<"Reasonable class sizes", str_ratio>> >>
    ELSE <<>>

StemReason(s, profile) ==
    LET ap_courses == GetDefault(s.ap_courses, Val(0)) IN
    IF TruthyNum(ap_courses) /\ ap_courses[2] >= 5 /\ profile.interest_stem
        THEN << <<"Strong STEM programs", ap_courses>> >>
    ELSE IF TruthyNum(ap_courses) /\ ap_courses[2] > 0
        THEN << <<"Offers AP courses", ap_courses>> >>
    ELSE <<>>

GiftedReason(s, profile) ==
    IF TruthyNum(Get(s.has_gifted_program)) /\ profile.needs_gifted
        THEN << <<"Has Gifted & Talented program", None>> >>
    ELSE <<>>

\* school.get("city_location", "").upper() is evaluated only when home_city
\* is non-empty, and raises AttributeError on None
LocationReasonRaises(s, profile) ==
    /\ HomeCity(profile) # <<>>
    /\ GetDefault(s.city_location, Val(<<>>)) = None

LocationReason(s, profile) ==
    LET home_city == HomeCity(profile)
        city == GetDefault(s.city_location, Val(<<>>))
    IN  IF home_city # <<>> /\ Upper(city[2]) = home_city
            THEN << <<"Located in", city>> >>
        ELSE <<>>

SizeReason(s) ==
    LET enrollment == Get(s.enrollment) IN
    IF TruthyNum(enrollment) /\ 200 <= enrollment[2] /\ enrollment[2] <= 800
        THEN << <<"Medium-sized school", enrollment>> >>
    ELSE <<>>

AdmissionReason(s) ==
    IF Get(s.charter) = Val(0)
        THEN << <<"Public school (neighborhood enrollment)", None>> >>
    ELSE << <<"Charter school (lottery application required)", None>> >>

GenericReason == <<"Meets basic quality standards", None>>

\* variant: the admission type put first
QualifyingReasonsAdmissionFirst(s, profile) ==
    Concat(<< AdmissionReason(s), GradReason(s), ClassSizeReason(s),
              StemReason(s, profile), GiftedReason(s, profile),
              LocationReason(s, profile), SizeReason(s) >>)

\* reasons before the filler is considered
QualifyingReasons(s, profile) ==
    Concat(<< GradReason(s), ClassSizeReason(s), StemReason(s, profile),
              GiftedReason(s, profile), LocationReason(s, profile),
              SizeReason(s), AdmissionReason(s) >>)

\* if len(reasons) < 3: reasons.append(generic)
AddFiller(rs) == IF Len(rs) < 3 THEN Append(rs, GenericReason) ELSE rs

MatchReasoningRaises(s, profile) ==
    HomeCityRaises(profile) \/ LocationReasonRaises(s, profile)

generate_match_reasoning(s, profile) ==
    IF MatchReasoningRaises(s, profile) THEN Raise("AttributeError")
    ELSE Return(AddFiller(QualifyingReasons(s, profile)))

----------------------------------------------------------------------------
(* rank_schools *)

\* variant: the school's city is compared as written, not upper-cased
LocationScoreCaseSensitive(s, home_city) ==
    IF home_city # <<>> /\ TruthyStr(Get(s.city_location))
        THEN IF s.city_location[2] = home_city THEN 1000 ELSE 500
    ELSE 1000

\* location_score of one school, in thousandths
LocationScore(s, home_city) ==
    IF home_city # <<>> /\ TruthyStr(Get(s.city_location))
        THEN IF Upper(s.city_location[2]) = home_city THEN 1000 ELSE 500
    ELSE 1000

\* base_score = school.get("base_match_score", 0.5)
BaseScore(s) == GetDefault(s.base_match_score, Val(500))

\* base_score * 0.85 raises TypeError on None
ScoreRaises(s) == BaseScore(s) = None

\* variant: the two weights exchanged
AdjustedScoreSwapped(base, loc) == base * 15 + loc * 85

\* adjusted_score = base_score * 0.85 + location_score * 0.15, exactly, in
\* hundred-thousandths (base and location in thousandths)
AdjustedScore(base, loc) == base * 85 + loc * 15

\* round(adjusted_score * 100, 1), in tenths of a percent.  The product is a
\* binary float: off a decimal tie it rounds to the nearest tenth; on a tie
\* the representation error decides, and `up` tells which way it falls.
RoundTenth(x, up) ==
    LET q == x \div 100
        r == x % 100
    IN  IF r < 50 THEN q
        ELSE IF r > 50 THEN q + 1
        ELSE IF up THEN q + 1 ELSE q

AdmissionType(s) ==
    IF Get(s.charter) = Val(1) THEN "Charter School (Lottery)"
    ELSE "Public School (Enrollment)"

\* the loop body: enriched_school = school.copy() plus the four new keys
Enrich(s, profile, round_up) ==
    LET location_score == LocationScore(s, HomeCity(profile))
        base_score == BaseScore(s)[2]
        adjusted_score == AdjustedScore(base_score, location_score)
        reasoning == generate_match_reasoning(s, profile)[2]
    IN  [s EXCEPT
            !.match_score = Val(RoundTenth(adjusted_score,
                                 <<base_score, location_score>> \in round_up)),
            !.match_reasoning = Val(reasoning),
            !.admission_type = Val(AdmissionType(s)),
            !.distance_score = Val(location_score)]

\* variant: an ascending sort then reversed, which turns equal keys around
RECURSIVE InsertDescBeforeEqual(_, _)
InsertDescBeforeEqual(sorted, x) ==
    IF sorted = <<>> THEN <<x>>
    ELSE IF Head(sorted).match_score[2] <= x.match_score[2] THEN <<x>> \o sorted
    ELSE <<Head(sorted)>> \o InsertDescBeforeEqual(Tail(sorted), x)

\* list.sort(key=match_score, reverse=True) is stable: x goes before the
\* first element whose key is smaller, after every element whose key is equal
RECURSIVE InsertDesc(_, _)
InsertDesc(sorted, x) ==
    IF sorted = <<>> THEN <<x>>
    ELSE IF Head(sorted).match_score[2] < x.match_score[2] THEN <<x>> \o sorted
    ELSE <<Head(sorted)>> \o InsertDesc(Tail(sorted), x)

RECURSIVE SortByMatchScore(_)
SortByMatchScore(l) ==
    IF l = <<>> THEN <<>>
    ELSE InsertDesc(SortByMatchScore(SubSeq(l, 1, Len(l) - 1)), l[Len(l)])

\* variant: enumerate without its start argument
AddRankFromZero(l) == [i \in 1..Len(l) |-> [l[i] EXCEPT !.rank = Val(i - 1)]]

\* for i, school in enumerate(ranked_schools, 1): school["rank"] = i
AddRank(l) == [i \in 1..Len(l) |-> [l[i] EXCEPT !.rank = Val(i)]]

\* the try block raises when the profile's city is None or any school's
\* scoring or reasoning raises
RankBodyRaises(l, profile) ==
    \/ HomeCityRaises(profile)
    \/ \E i \in 1..Len(l) : ScoreRaises(l[i]) \/ MatchReasoningRaises(l[i], profile)

RankBody(l, profile, round_up) ==
    IF RankBodyRaises(l, profile) THEN Raise("Exception")
    ELSE Return(AddRank(SortByMatchScore(
            [i \in 1..Len(l) |-> Enrich(l[i], profile, round_up)])))

\* variant: no except clause
RankExceptReraise(l, body) == body

\* except Exception as e: print(...); return schools
RankExcept(l, body) == IF body[1] = "raise" THEN Return(l) ELSE body

rank_schools(l, profile, round_up) ==
    RankExcept(l, RankBody(l, profile, round_up))

----------------------------------------------------------------------------
(* _build_matching_query and match_schools *)

\* LIMIT 100 of the school_data stage
CandidateLimit == 100

\* limit: int = 20
DefaultLimit == 20

\* city = location.get("city", "").upper() raises AttributeError on None;
\* school_level > 0 raises TypeError on None
BuildQueryRaises(profile) ==
    \/ HomeCityRaises(profile)
    \/ GetDefault(profile.school_level, Val(0)) = None

\* the parts of the query text that depend on the arguments
build_matching_query(profile, limit) ==
    LET school_level == GetDefault(profile.school_level, Val(0))[2]
        city == HomeCity(profile)
    IN  [level_filter |-> IF school_level > 0 THEN Val(school_level) ELSE None,
         city_filter |-> IF city # <<>> THEN Val(city) ELSE None,
         candidate_limit |-> CandidateLimit,
         limit |-> limit]

\* The query that _build_matching_query builds, stage by stage.  A column is
\* None (SQL NULL) or Val(v); a comparison with NULL is not true, so a CASE
\* falls through to its next branch.  Tiers are in tenths, sub-scores in
\* hundredths, weights in hundredths.

SqlGe(x, n) == x[1] = "val" /\ x[2] >= n
SqlLe(x, n) == x[1] = "val" /\ x[2] <= n
SqlGt(x, n) == x[1] = "val" /\ x[2] > n
SqlLt(x, n) == x[1] = "val" /\ x[2] < n
SqlBetween(x, lo, hi) == SqlGe(x, lo) /\ SqlLe(x, hi)

\* GREATEST(COALESCE(x, 0), 0)
GreatestCoalesce(x) == IF x[1] = "val" /\ x[2] > 0 THEN x[2] ELSE 0

\* the WHERE clause of school_data and the two filters the profile adds;
\* teachers_fte > 0 is a student_teacher_ratio that is not NULL
SchoolDataWhere(j, q) ==
    /\ SqlGe(j.enrollment, 50)
    /\ j.student_teacher_ratio # None
    /\ j.school_name # None
    /\ q.level_filter # None => j.school_level = q.level_filter
    /\ q.city_filter # None =>
          (j.city_location[1] = "val"
              /\ Upper(j.city_location[2]) = q.city_filter[2])

\* variant: ap_courses counted for every school level
SchoolDataRowAnyLevel(j) ==
    [ncessch |-> j.ncessch, school_name |-> j.school_name,
     city_location |-> j.city_location, school_level |-> j.school_level,
     enrollment |-> j.enrollment, charter |-> j.charter,
     student_teacher_ratio |-> j.student_teacher_ratio,
     graduation_rate |-> j.graduation_rate,
     ap_courses |-> Val(GreatestCoalesce(j.sch_apcourses)),
     has_gifted_program |-> IF j.gt_combokey # None THEN Val(1) ELSE Val(0),
     base_match_score |-> Absent, match_category |-> Absent,
     match_score |-> Absent, match_reasoning |-> Absent,
     admission_type |-> Absent, distance_score |-> Absent, rank |-> Absent]

\* the SELECT list of school_data: the joined columns, ap_courses counted for
\* high schools only and never negative, has_gifted_program from the join
SchoolDataRow(j) ==
    [ncessch |-> j.ncessch, school_name |-> j.school_name,
     city_location |-> j.city_location, school_level |-> j.school_level,
     enrollment |-> j.enrollment, charter |-> j.charter,
     student_teacher_ratio |-> j.student_teacher_ratio,
     graduation_rate |-> j.graduation_rate,
     ap_courses |-> IF j.school_level = Val(3)
                        THEN Val(GreatestCoalesce(j.sch_apcourses))
                    ELSE None,
     has_gifted_program |-> IF j.gt_combokey # None THEN Val(1) ELSE Val(0),
     base_match_score |-> Absent, match_category |-> Absent,
     match_score |-> Absent, match_reasoning |-> Absent,
     admission_type |-> Absent, distance_score |-> Absent, rank |-> Absent]

\* variant: no tier of its own for a school without graduation data
GradTierWithoutLevel(r) ==
    IF SqlGe(r.graduation_rate, 90) THEN 10
    ELSE IF SqlGe(r.graduation_rate, 80) THEN 8
    ELSE IF SqlGe(r.graduation_rate, 70) THEN 6
    ELSE 4

GradTier(r) ==
    IF SqlGe(r.graduation_rate, 90) THEN 10
    ELSE IF SqlGe(r.graduation_rate, 80) THEN 8
    ELSE IF SqlGe(r.graduation_rate, 70) THEN 6
    ELSE IF r.graduation_rate = None /\ SqlLt(r.school_level, 3) THEN 7
    ELSE 4

ClassSizeTier(r) ==
    IF SqlLe(r.student_teacher_ratio, 150) THEN 10
    ELSE IF SqlLe(r.student_teacher_ratio, 200) THEN 8
    ELSE IF SqlLe(r.student_teacher_ratio, 250) THEN 6
    ELSE 4

StemTier(r) ==
    IF SqlGe(r.ap_courses, 10) THEN 10
    ELSE IF SqlGe(r.ap_courses, 5) THEN 7
    ELSE IF SqlGt(r.ap_courses, 0) THEN 5
    ELSE IF SqlLt(r.school_level, 3) THEN 7
    ELSE 3

GiftedTier(r) == IF r.has_gifted_program = Val(1) THEN 10 ELSE 5

SizeTier(r) ==
    IF SqlBetween(r.enrollment, 200, 800) THEN 10
    ELSE IF SqlBetween(r.enrollment, 100, 1500) THEN 7
    ELSE 5

EnvironmentRatioTier(r) ==
    IF SqlLe(r.student_teacher_ratio, 180) THEN 10
    ELSE IF SqlLe(r.student_teacher_ratio, 220) THEN 7
    ELSE 5

\* variant: no credit for a school whose charter flag is NULL
AdmissionTierKnownFlag(r) ==
    IF r.charter = Val(0) THEN 10 ELSE IF r.charter = Val(1) THEN 7 ELSE 0

AdmissionTier(r) == IF r.charter = Val(0) THEN 10 ELSE 7

\* 1. School Quality: grad tier * 0.5 + class size tier * 0.5
SchoolQuality(r) == GradTier(r) * 5 + ClassSizeTier(r) * 5

\* 2. Programs & Services: STEM tier * 0.6 + gifted tier * 0.4
Programs(r) == StemTier(r) * 6 + GiftedTier(r) * 4

\* 3. School Environment: size tier * 0.5 + ratio tier * 0.5
Environment(r) == SizeTier(r) * 5 + EnvironmentRatioTier(r) * 5

\* 5. Admission Fit
AdmissionFit(r) == AdmissionTier(r) * 10

\* variant: the location placeholder at full weight
ScoringExpressionFullLocation(r) ==
    SchoolQuality(r) * 30 + Programs(r) * 25 + Environment(r) * 20
        + 15 * 100 + AdmissionFit(r) * 10

\* the scoring expression, in ten-thousandths
ScoringExpression(r) ==
    SchoolQuality(r) * 30 + Programs(r) * 25 + Environment(r) * 20
        + 15 * 80 + AdmissionFit(r) * 10

\* scored_schools: SELECT *, (...) as base_match_score, in thousandths (every
\* term of the expression is a whole number of thousandths)
ScoredRow(r) == [r EXCEPT !.base_match_score = Val(ScoringExpression(r) \div 10)]

\* The score is a float sum.  Evaluated in IEEE doubles in the order written,
\* the sum differs from the decimal value by less than the distance to the
\* next threshold, except for the rows below, whose decimal score is exactly
\* 0.85 and whose float sum is 0.8499999999999999.
SumBelowDecimal(r) ==
    /\ GradTier(r) + ClassSizeTier(r) = 14
    /\ Programs(r) = 100 /\ Environment(r) = 100 /\ AdmissionTier(r) = 7

\* base_match_score >= t for a threshold t in thousandths; `below` holds the
\* scores at which the float sum of such a row lands below the decimal value
FloatGe(r, t, below) ==
    LET b == r.base_match_score[2]
    IN  b > t \/ (b = t /\ ~(SumBelowDecimal(r) /\ b \in below))

\* the CASE of the final SELECT
MatchCategory(r, below) ==
    IF FloatGe(r, 850, below) THEN "Excellent Match"
    ELSE IF FloatGe(r, 700, below) THEN "Good Match"
    ELSE IF FloatGe(r, 500, below) THEN "Fair Match"
    ELSE "Consider"

\* the final SELECT list; its columns are those of the school_data row
FinalRow(r, below) == [r EXCEPT !.match_category = Val(MatchCategory(r, below))]

\* WHERE base_match_score >= 0.40
FinalWhere(r, below) == FloatGe(r, 400, below)

\* graduation_rate DESC: NULL sorts last
GradKey(r) == IF r.graduation_rate = None THEN -1 ELSE r.graduation_rate[2]

\* ORDER BY base_match_score DESC, graduation_rate DESC; rows equal in both
\* keys come in any order
InQueryOrder(l) ==
    \A i \in 1..(Len(l) - 1) :
        \/ l[i].base_match_score[2] > l[i + 1].base_match_score[2]
        \/ /\ l[i].base_match_score[2] = l[i + 1].base_match_score[2]
           /\ GradKey(l[i]) >= GradKey(l[i + 1])

Orderings(n) == {f \in [1..n -> 1..n] : \A i, j \in 1..n : f[i] = f[j] => i = j}

\* the orders ORDER BY can give the rows of l
QueryOrders(l) ==
    {m \in {[i \in 1..Len(l) |-> l[f[i]]] : f \in Orderings(Len(l))} :
        InQueryOrder(m)}

\* school_data: the rows that pass WHERE, at most CandidateLimit of them
SchoolData(joined, q) ==
    LET Where(j) == SchoolDataWhere(j, q)
        passing == SelectSeq(joined, Where)
    IN  Take([i \in 1..Len(passing) |-> SchoolDataRow(passing[i])],
             q.candidate_limit)

ScoredSchools(l) == [i \in 1..Len(l) |-> ScoredRow(l[i])]

\* the rows of the final SELECT before ORDER BY and LIMIT
Selected(l, below) ==
    LET Where(r) == FinalWhere(r, below)
        passing == SelectSeq(l, Where)
    IN  [i \in 1..Len(passing) |-> FinalRow(passing[i], below)]

\* the results the final SELECT can give: ordered, then LIMIT limit
FinalSelect(l, q, below) ==
    {Take(m, q.limit) : m \in QueryOrders(Selected(l, below))}

\* ncessch not in seen_schools
InSeen(seen, ncessch) == \E j \in 1..Len(seen) : seen[j].ncessch = ncessch

\* variant: seen_schools[ncessch] = school without the membership test, so a
\* later row replaces the first
DedupRowKeepLast(seen, row) ==
    LET ncessch == Get(row.ncessch) IN
    IF ncessch[1] = "val" /\ ncessch[2] # ""
        THEN IF InSeen(seen, ncessch)
                 THEN [j \in 1..Len(seen) |->
                          IF seen[j].ncessch = ncessch THEN row ELSE seen[j]]
             ELSE Append(seen, row)
    ELSE seen

\* ncessch = school.get('ncessch')
\* if ncessch and ncessch not in seen_schools: seen_schools[ncessch] = school
DedupRow(seen, row) ==
    LET ncessch == Get(row.ncessch) IN
    IF ncessch[1] = "val" /\ ncessch[2] # "" /\ ~InSeen(seen, ncessch)
        THEN Append(seen, row)
    ELSE seen

\* variant: no test for an empty list
MatchResultWithoutEmptyCheck(seen, q, profile) ==
    [status |-> "success", message |-> Absent, schools |-> seen,
     count |-> Val(Len(seen)), query |-> q, student_profile |-> Val(profile)]

\* schools = list(seen_schools.values()) and the two returns of the try block
MatchResult(seen, q, profile) ==
    IF seen = <<>>
        THEN [status |-> "no_matches",
              message |-> Val("No schools found matching criteria"),
              schools |-> <<>>, count |-> Absent, query |-> q,
              student_profile |-> Absent]
    ELSE [status |-> "success", message |-> Absent, schools |-> seen,
          count |-> Val(Len(seen)), query |-> q,
          student_profile |-> Val(profile)]

\* except Exception as e: return {"status": "error", ...}
MatchError(e) ==
    [status |-> "error", message |-> Val(<<"Error matching schools", e>>),
     schools |-> <<>>, count |-> Absent, query |-> Absent,
     student_profile |-> Absent]

----------------------------------------------------------------------------
(* generate_school_recommendations and _generate_application_strategy *)

InExcellent(s) == s.match_score[2] >= 850

\* variant: the upper bound of the tier included
InGoodInclusive(s) == 700 <= s.match_score[2] /\ s.match_score[2] <= 850

InGood(s) == 700 <= s.match_score[2] /\ s.match_score[2] < 850
InFair(s) == 500 <= s.match_score[2] /\ s.match_score[2] < 700

Excellent(l) == SelectSeq(l, InExcellent)
Good(l) == SelectSeq(l, InGood)
Fair(l) == SelectSeq(l, InFair)

\* variant: every school that is not a charter school counts as public
IsPublicNotCharter(s) == Get(s.charter) # Val(1)

IsPublic(s) == Get(s.charter) = Val(0)
IsCharter(s) == Get(s.charter) = Val(1)

TopChoiceSteps(top_choice) ==
    IF Get(top_choice.charter) = Val(0)
        THEN << "1. Verify you live in the school's attendance boundary",
                "2. Complete enrollment forms by district deadline",
                "3. Schedule a school tour to visit" >>
    ELSE << "1. Submit lottery application before deadline (typically Jan-Feb)",
            "2. Have a backup plan (neighborhood school)",
            "3. Monitor lottery results (typically March-April)" >>

RecommendedApproach(top_choice) ==
    IF Get(top_choice.charter) = Val(0)
        THEN <<"Your top match is a public school", top_choice.school_name>>
    ELSE <<"Your top match is a charter school", top_choice.school_name>>

\* top_choice['school_name'] raises KeyError when the key is absent
StrategyRaises(l) == l # <<>> /\ l[1].school_name = Absent

\* variant: the last step counts every charter school, not the three listed
application_strategy_counting_all(l, profile) ==
    LET public_schools == SelectSeq(l, IsPublic)
        charter_schools == SelectSeq(l, IsCharter)
        top_choice == IF l # <<>> THEN Val(l[1]) ELSE None
        neighborhood_school ==
            IF public_schools # <<>> THEN Val(public_schools[1]) ELSE None
    IN  [recommended_approach |->
             IF top_choice # None THEN RecommendedApproach(top_choice[2])
             ELSE <<"">>,
         top_choice |-> top_choice,
         neighborhood_option |-> neighborhood_school,
         lottery_schools |-> Take(charter_schools, 3),
         next_steps |->
             (IF top_choice # None THEN TopChoiceSteps(top_choice[2]) ELSE <<>>)
             \o (IF charter_schools # <<>>
                     THEN << <<"4. Apply to charter schools to maximize options",
                               Len(charter_schools)>> >>
                 ELSE <<>>)]

generate_application_strategy(l, profile) ==
    LET public_schools == SelectSeq(l, IsPublic)
        charter_schools == SelectSeq(l, IsCharter)
        top_choice == IF l # <<>> THEN Val(l[1]) ELSE None
        neighborhood_school ==
            IF public_schools # <<>> THEN Val(public_schools[1]) ELSE None
    IN  [recommended_approach |->
             IF top_choice # None THEN RecommendedApproach(top_choice[2])
             ELSE <<"">>,
         top_choice |-> top_choice,
         neighborhood_option |-> neighborhood_school,
         lottery_schools |-> Take(charter_schools, 3),
         next_steps |->
             (IF top_choice # None THEN TopChoiceSteps(top_choice[2]) ELSE <<>>)
             \o (IF charter_schools # <<>>
                     THEN << <<"4. Apply to charter schools to maximize options",
                               Len(Take(charter_schools, 3))>> >>
                 ELSE <<>>)]

\* s["match_score"] raises KeyError when the key is absent and the
\* comparison raises TypeError on None
RecommendRaises(l) ==
    \/ \E i \in 1..Len(l) : l[i].match_score[1] # "val"
    \/ StrategyRaises(l)

\* the return for an empty list
NoRecommendations ==
    [status |-> "no_recommendations",
     message |-> Val("No schools matched the criteria"),
     recommendations |-> Val(<<>>), total_matches |-> Absent, top_10 |-> Absent,
     by_category |-> Absent, summary |-> Absent,
     application_strategy |-> Absent, student_profile |-> Absent]

\* except Exception as e: return {"status": "error", ...}
RecommendError ==
    [status |-> "error", message |-> Val("Error generating recommendations"),
     recommendations |-> Val(<<>>), total_matches |-> Absent, top_10 |-> Absent,
     by_category |-> Absent, summary |-> Absent,
     application_strategy |-> Absent, student_profile |-> Absent]

\* variant: five schools shown in every tier
RecommendationsFiveEach(l, profile) ==
    [status |-> "success", message |-> Absent, recommendations |-> Absent,
     total_matches |-> Val(Len(l)),
     top_10 |-> Val(Take(l, 10)),
     by_category |-> Val([excellent |-> Take(Excellent(l), 5),
                          good |-> Take(Good(l), 5),
                          fair |-> Take(Fair(l), 5)]),
     summary |-> Val([found |-> Len(l), excellent |-> Len(Excellent(l)),
                      good |-> Len(Good(l)), fair |-> Len(Fair(l))]),
     application_strategy |-> Val(generate_application_strategy(l, profile)),
     student_profile |-> Val(profile)]

Recommendations(l, profile) ==
    [status |-> "success", message |-> Absent, recommendations |-> Absent,
     total_matches |-> Val(Len(l)),
     top_10 |-> Val(Take(l, 10)),
     by_category |-> Val([excellent |-> Take(Excellent(l), 5),
                          good |-> Take(Good(l), 5),
                          fair |-> Take(Fair(l), 3)]),
     summary |-> Val([found |-> Len(l), excellent |-> Len(Excellent(l)),
                      good |-> Len(Good(l)), fair |-> Len(Fair(l))]),
     application_strategy |-> Val(generate_application_strategy(l, profile)),
     student_profile |-> Val(profile)]

\* variant: no test for an empty list
RecommendationsWithoutEmptyCheck(l, profile) ==
    IF RecommendRaises(l) THEN Return(RecommendError)
    ELSE Return(Recommendations(l, profile))

generate_school_recommendations(l, profile) ==
    IF l = <<>> THEN Return(NoRecommendations)
    ELSE IF RecommendRaises(l) THEN Return(RecommendError)
    ELSE Return(Recommendations(l, profile))

----------------------------------------------------------------------------
(* Inputs *)

\* longest list handed to rank_schools
MaxSchools == 3

\* a row of the final SELECT (its columns that the code reads), before
\* rank_schools adds its keys
DefaultSchool ==
    [ncessch |-> Val("N1"), school_name |-> Val("A"),
     city_location |-> Val(<<"S", "f">>), graduation_rate |-> None,
     student_teacher_ratio |-> Val(150), ap_courses |-> None,
     has_gifted_program |-> Val(0), enrollment |-> Val(500),
     charter |-> Val(0), base_match_score |-> Val(700),
     match_score |-> Absent, match_reasoning |-> Absent,
     admission_type |-> Absent, distance_score |-> Absent, rank |-> Absent]

GradRates == {None, Val(74), Val(75), Val(85)}
Ratios == {None, Val(180), Val(220), Val(221)}
ApCourses == {None, Val(0), Val(4), Val(5)}
GiftedFlags == {Val(0), Val(1)}
Cities == {Absent, None, Val(<<>>), Val(<<"S", "f">>), Val(<<"s", "F">>),
           Val(<<"O", "z">>)}
Enrollments == {None, Val(199), Val(200), Val(801)}
Charters == {None, Val(0), Val(1)}
BaseScores ==
    {Absent, None, Val(0), Val(510), Val(700), Val(707), Val(824), Val(1000)}

Locations == {Absent, Val([city |-> Absent]), Val([city |-> None]),
              Val([city |-> Val(<<>>)]), Val([city |-> Val(<<"s", "f">>)])}

Profiles ==
    [location : Locations, school_level : {Absent},
     interest_stem : BOOLEAN, needs_gifted : BOOLEAN]

\* schools handed to _generate_match_reasoning
ReasoningSchools ==
    {[DefaultSchool EXCEPT !.graduation_rate = g, !.student_teacher_ratio = r,
                           !.ap_courses = a, !.has_gifted_program = gt,
                           !.city_location = c, !.enrollment = e, !.charter = ch] :
        g \in GradRates, r \in Ratios, a \in ApCourses, gt \in GiftedFlags,
        c \in Cities, e \in Enrollments, ch \in Charters}

\* one-school lists handed to rank_schools
SingleRankSchools ==
    {[DefaultSchool EXCEPT !.base_match_score = b, !.city_location = c,
                           !.charter = ch] :
        b \in BaseScores, c \in Cities, ch \in Charters}

\* schools of the longer lists handed to rank_schools
ListRankSchools ==
    {[DefaultSchool EXCEPT !.ncessch = k, !.base_match_score = b,
                           !.city_location = c] :
        k \in {Val("N1"), Val("N2")}, b \in {None, Val(510), Val(700)},
        c \in {Val(<<"S", "f">>), Val(<<"O", "z">>)}}

SeqsUpTo(S, n) == UNION {[1..k -> S] : k \in 0..n}

RankInputs == [1..1 -> SingleRankSchools] \cup SeqsUpTo(ListRankSchools, MaxSchools)

RankProfiles == {p \in Profiles : ~p.interest_stem /\ ~p.needs_gifted}

\* the <<base, location>> operands whose adjusted score is a decimal tie
TieOperands ==
    {<<b[2], l>> : b \in {x \in BaseScores : x[1] = "val"}, l \in {500, 1000}}

\* most rows the query job yields
MaxRows == 3

\* rows of the query job; two rows may carry the same ncessch
Rows ==
    {[DefaultSchool EXCEPT !.ncessch = k, !.school_name = n] :
        k \in {Val("N1"), Val("N2")}, n \in {Val("A"), Val("B")}}
    \cup {[DefaultSchool EXCEPT !.ncessch = k] : k \in {None, Val("")}}

MatchProfiles ==
    [location : {Absent, Val([city |-> None]), Val([city |-> Val(<<"s", "f">>)])},
     school_level : {Absent, None, Val(0), Val(3)},
     interest_stem : {FALSE}, needs_gifted : {FALSE}]

\* longest list of arbitrary schools handed to generate_school_recommendations
MaxRanked == 2

\* most schools of one tier in a ranked list handed to it
MaxPerTier == 6

RecSchools ==
    {[DefaultSchool EXCEPT !.match_score = m, !.charter = ch] :
        m \in {Absent, None, Val(499), Val(500), Val(699), Val(700), Val(849),
               Val(850)},
        ch \in Charters}

\* n schools of match_score m
Tier(n, m, ch) == [i \in 1..n |-> [DefaultSchool EXCEPT !.match_score = Val(m),
                                                       !.charter = ch]]

\* lists as rank_schools returns them: match_score non-increasing, rank i at
\* position i
RankedLists ==
    {AddRank(Tier(e, 900, ch) \o Tier(g, 750, ch) \o Tier(f, 600, ch)
             \o Tier(c, 400, ch)) :
        e \in 0..MaxPerTier, g \in 0..MaxPerTier, f \in 0..MaxPerTier,
        c \in 0..MaxPerTier, ch \in {Val(0), Val(1)}}

\* longest ranked list of schools that differ in their charter flags
MaxFlagged == 5

\* ranked lists of schools with any charter flags; the rank tells them apart
FlaggedLists ==
    {AddRank([i \in 1..Len(f) |-> [DefaultSchool EXCEPT !.match_score = Val(900),
                                                       !.charter = f[i]]]) :
        f \in SeqsUpTo(Charters, MaxFlagged) \ {<<>>}}

RecommendInputs ==
    SeqsUpTo(RecSchools, MaxRanked) \cup RankedLists \cup FlaggedLists

----------------------------------------------------------------------------
(* src/tools/bigquery_tools.py: query_bigquery and the find_* tools *)

\* An execution of a query either raises or yields rows; a query is named by
\* the function that builds it.

\* if not project_id
ProjectIdFalsy(state) ==
    Get(state.project_id) = None \/ state.project_id = Val("")

\* the three return statements of query_bigquery; tool_context.state raises
\* AttributeError on a missing context, inside the try block
QueryBigqueryResult(sql_query, context, execution) ==
    IF context = None
        THEN [status |-> "error", message |-> Val("BigQuery error"),
              data |-> <<>>, row_count |-> Absent, query |-> Val(sql_query),
              suggestion |-> Absent, summary |-> Absent,
              state_averages |-> Absent]
    ELSE IF ProjectIdFalsy(context[2])
        THEN [status |-> "error",
              message |-> Val("Project ID not found in context"),
              data |-> <<>>, row_count |-> Absent, query |-> Absent,
              suggestion |-> Absent, summary |-> Absent,
              state_averages |-> Absent]
    ELSE IF execution[1] = "raise"
        THEN [status |-> "error", message |-> Val("BigQuery error"),
              data |-> <<>>, row_count |-> Absent, query |-> Val(sql_query),
              suggestion |-> Absent, summary |-> Absent,
              state_averages |-> Absent]
    ELSE [status |-> "success", message |-> Absent, data |-> execution[2],
          row_count |-> Val(Len(execution[2])), query |-> Val(sql_query),
          suggestion |-> Absent, summary |-> Absent,
          state_averages |-> Absent]

\* variant: the query text stored before the query is run
QueryBigqueryStateBeforeRun(sql_query, context, execution) ==
    IF context # None /\ ~ProjectIdFalsy(context[2])
        THEN Val([context[2] EXCEPT
                     !.last_bq_query = Val(sql_query),
                     !.last_bq_row_count =
                         IF execution[1] = "return" THEN Val(Len(execution[2]))
                         ELSE @])
    ELSE context

\* tool_context.state["last_bq_query"] = sql_query
\* tool_context.state["last_bq_row_count"] = len(rows)
QueryBigqueryState(sql_query, context, execution) ==
    IF context # None /\ ~ProjectIdFalsy(context[2]) /\ execution[1] = "return"
        THEN Val([context[2] EXCEPT
                     !.last_bq_query = Val(sql_query),
                     !.last_bq_row_count = Val(Len(execution[2]))])
    ELSE context

\* the dict {}
EmptyRow == [school_name |-> Absent]

\* result["data"][0] on success with rows, {} otherwise and on any exception
get_state_averages(context, execution) ==
    LET result == QueryBigqueryResult("get_state_averages", context, execution)
    IN  IF context # None /\ result.status = "success" /\ result.data # <<>>
            THEN result.data[1]
        ELSE EmptyRow

\* result['data'][:5] in find_high_need_low_tech_spending, [:10] in the others
SummaryRows(tool) == IF tool = "find_high_need_low_tech_spending" THEN 5 ELSE 10

NoData ==
    [status |-> "no_data", message |-> Val("No schools found"), data |-> <<>>,
     row_count |-> Absent, query |-> Absent,
     suggestion |-> Val("Try other criteria"), summary |-> Absent,
     state_averages |-> Absent]

\* the except clause of a find_* tool
ToolError ==
    [status |-> "error", message |-> Val("Error finding schools"),
     data |-> <<>>, row_count |-> Absent, query |-> Absent,
     suggestion |-> Absent, summary |-> Absent, state_averages |-> Absent]

\* the body of find_high_need_low_tech_spending, find_high_graduation_low_funding
\* and find_strong_stem_low_class_size: tool_context.state raises on a missing
\* context; then the state averages, the tool's query and
\*   if result.get("status") == "error" or result.get("row_count", 0) == 0
FindResult(tool, context, averages, execution) ==
    IF context = None THEN ToolError
    ELSE LET state_avg == get_state_averages(context, averages)
             after_avg == QueryBigqueryState("get_state_averages", context,
                                             averages)
             result == QueryBigqueryResult(tool, after_avg, execution)
         IN  IF result.status = "error"
                \/ GetDefault(result.row_count, Val(0)) = Val(0)
                 THEN NoData
             ELSE [result EXCEPT
                      !.summary = Val(Len(Take(result.data, SummaryRows(tool)))),
                      !.state_averages = Val(state_avg)]

\* tool_context.state after the two queries of a find_* tool
FindState(tool, context, averages, execution) ==
    QueryBigqueryState(tool,
        QueryBigqueryState("get_state_averages", context, averages), execution)

----------------------------------------------------------------------------
(* The calls *)

IdleReasoning == school = DefaultSchool /\ reasons = NotCalled
IdleRank == schools = <<>> /\ rank_ret = NotCalled /\ fp_round_up = {}
IdleMatch ==
    /\ results = <<>> /\ ms_pc = "idle" /\ query = None /\ ms_row = 1
    /\ seen_schools = <<>> /\ ms_exc = None /\ ms_ret = NotCalled
IdleRecommend == ranked_schools = <<>> /\ rec_ret = NotCalled
IdleWarehouse ==
    tool_context = None /\ tool_call = NotCalled /\ tool_ret = NotCalled
IdleQuery ==
    /\ limit_arg = DefaultLimit /\ built_query = NotCalled
    /\ q_stage = "idle" /\ q_rows = <<>> /\ fp_sum_below = {}

IdleRequests ==
    /\ requests = <<>> /\ req_pc = <<>> /\ req_query = <<>>
    /\ req_ret = <<>> /\ query_file = <<>>
IdleInsights ==
    /\ ins_query = <<>> /\ ins_pc = "idle" /\ ins_ret = NotCalled
    /\ recommender_agent = None /\ critique_agent = None /\ agent_runs = <<>>
IdleBq == bq_calls = <<>>

IdleObjects ==
    /\ objects = <<>> /\ rs_schools = <<>> /\ rs_pc = "idle" /\ rs_i = 1
    /\ rs_ranked = <<>> /\ rs_ret = NotCalled

IdleRerank == rerank_ret = NotCalled

IdleInteractive ==
    /\ session_id = "" /\ user_id = "" /\ im_pc = "idle" /\ user_input = <<>>
    /\ im_events = <<>> /\ im_runs = <<>> /\ im_out = ""

IdleLater ==
    /\ IdleRequests /\ IdleInsights /\ IdleBq /\ IdleObjects /\ IdleRerank
    /\ IdleInteractive

InitReasoning ==
    /\ student_profile \in Profiles
    /\ school \in ReasoningSchools
    /\ reasons = NotCalled
    /\ IdleRank /\ IdleMatch /\ IdleRecommend
    /\ IdleWarehouse /\ IdleQuery /\ IdleLater

GenerateMatchReasoning ==
    /\ reasons = NotCalled
    /\ reasons' = generate_match_reasoning(school, student_profile)
    /\ UNCHANGED <<student_profile, school, schools, rank_ret, fp_round_up,
                   results, ms_pc, query, ms_row, seen_schools, ms_exc, ms_ret,
                   ranked_schools, rec_ret, warehouseVars, queryVars, laterVars>>

NextReasoning == GenerateMatchReasoning

SpecReasoning == InitReasoning /\ [][NextReasoning]_vars

InitRank ==
    /\ student_profile \in RankProfiles
    /\ schools \in RankInputs
    /\ rank_ret = NotCalled
    /\ fp_round_up \in SUBSET {o \in TieOperands : AdjustedScore(o[1], o[2]) % 100 = 50}
    /\ IdleReasoning /\ IdleMatch /\ IdleRecommend
    /\ IdleWarehouse /\ IdleQuery /\ IdleLater

\* the whole call; the argument list is left as it was (every write goes to
\* school.copy() and to the new list ranked_schools)
RankSchools ==
    /\ rank_ret = NotCalled
    /\ rank_ret' = rank_schools(schools, student_profile, fp_round_up)
    /\ UNCHANGED <<student_profile, school, reasons, schools, fp_round_up,
                   results, ms_pc, query, ms_row, seen_schools, ms_exc, ms_ret,
                   ranked_schools, rec_ret, warehouseVars, queryVars, laterVars>>

NextRank == RankSchools

SpecRank == InitRank /\ [][NextRank]_vars

InitMatch ==
    /\ student_profile \in MatchProfiles
    /\ results \in SeqsUpTo(Rows, MaxRows)
    /\ ms_pc = "import" /\ query = None /\ ms_row = 1
    /\ seen_schools = <<>> /\ ms_exc = None /\ ms_ret = NotCalled
    /\ IdleReasoning /\ IdleRank /\ IdleRecommend
    /\ IdleWarehouse /\ IdleQuery /\ IdleLater

MsFrame ==
    UNCHANGED <<student_profile, school, reasons, schools, rank_ret,
                fp_round_up, results, ranked_schools, rec_ret, warehouseVars, queryVars, laterVars>>

\* an exception in the try block passes control to the except clause
MsRaise(e) ==
    /\ ms_pc' = "except" /\ ms_exc' = Val(e)
    /\ UNCHANGED <<query, ms_row, seen_schools, ms_ret>>

MsGoto(pc) ==
    /\ ms_pc' = pc
    /\ UNCHANGED <<query, ms_row, seen_schools, ms_exc, ms_ret>>

\* from google.cloud import bigquery; import google.auth; import subprocess
MsImport ==
    /\ ms_pc = "import"
    /\ \/ MsGoto("client")
       \/ MsRaise("ImportError")
    /\ MsFrame

\* the gcloud token client, or after its bare except the default credentials
MsClient ==
    /\ ms_pc = "client"
    /\ \E gcloud_ok \in BOOLEAN, default_ok \in BOOLEAN :
           IF gcloud_ok \/ default_ok THEN MsGoto("build")
           ELSE MsRaise("DefaultCredentialsError")
    /\ MsFrame

MsBuildQuery ==
    /\ ms_pc = "build"
    /\ IF BuildQueryRaises(student_profile)
           THEN MsRaise(IF HomeCityRaises(student_profile)
                            THEN "AttributeError" ELSE "TypeError")
       ELSE /\ query' = Val(build_matching_query(student_profile, DefaultLimit))
            /\ ms_pc' = "save"
            /\ UNCHANGED <<ms_row, seen_schools, ms_exc, ms_ret>>
    /\ MsFrame

\* with open('/tmp/school_match_query.sql', 'w') as f: f.write(query)
MsSaveQuery ==
    /\ ms_pc = "save"
    /\ \/ MsGoto("execute")
       \/ MsRaise("OSError")
    /\ MsFrame

\* query_job = client.query(query); results = query_job.result()
MsExecute ==
    /\ ms_pc = "execute"
    /\ \/ MsGoto("rows")
       \/ MsRaise("GoogleAPIError")
    /\ MsFrame

\* one iteration of for row in results, or the row cannot be fetched or
\* converted
MsRow ==
    /\ ms_pc = "rows"
    /\ ms_row <= Len(results)
    /\ \/ /\ seen_schools' = DedupRow(seen_schools, results[ms_row])
          /\ ms_row' = ms_row + 1
          /\ UNCHANGED <<ms_pc, query, ms_exc, ms_ret>>
       \/ MsRaise("GoogleAPIError")
    /\ MsFrame

MsReturn ==
    /\ ms_pc = "rows"
    /\ ms_row > Len(results)
    /\ ms_ret' = Return(MatchResult(seen_schools, query, student_profile))
    /\ ms_pc' = "done"
    /\ UNCHANGED <<query, ms_row, seen_schools, ms_exc>>
    /\ MsFrame

MsExcept ==
    /\ ms_pc = "except"
    /\ ms_ret' = Return(MatchError(ms_exc[2]))
    /\ ms_pc' = "done"
    /\ UNCHANGED <<query, ms_row, seen_schools, ms_exc>>
    /\ MsFrame

NextMatch ==
    \/ MsImport \/ MsClient \/ MsBuildQuery \/ MsSaveQuery \/ MsExecute
    \/ MsRow \/ MsReturn \/ MsExcept

SpecMatch == InitMatch /\ [][NextMatch]_vars

InitRecommend ==
    /\ student_profile \in {p \in RankProfiles : p.location[1] = "val"
                                                  /\ p.location[2].city[1] = "val"}
    /\ ranked_schools \in RecommendInputs
    /\ rec_ret = NotCalled
    /\ IdleReasoning /\ IdleRank /\ IdleMatch
    /\ IdleWarehouse /\ IdleQuery /\ IdleLater

GenerateSchoolRecommendations ==
    /\ rec_ret = NotCalled
    /\ rec_ret' = generate_school_recommendations(ranked_schools, student_profile)
    /\ UNCHANGED <<student_profile, school, reasons, schools, rank_ret,
                   fp_round_up, results, ms_pc, query, ms_row, seen_schools,
                   ms_exc, ms_ret, ranked_schools, warehouseVars, queryVars, laterVars>>

NextRecommend == GenerateSchoolRecommendations

SpecRecommend == InitRecommend /\ [][NextRecommend]_vars

\* the frame of every call outside school_matcher.py's four entry points
matcherVars ==
    <<student_profile, school, reasons, schools, rank_ret, fp_round_up,
      results, ms_pc, query, ms_row, seen_schools, ms_exc, ms_ret,
      ranked_schools, rec_ret>>

NoPreference ==
    [location |-> Absent, school_level |-> Absent,
     interest_stem |-> FALSE, needs_gifted |-> FALSE]

IdleMatcher ==
    /\ student_profile = NoPreference
    /\ IdleReasoning /\ IdleRank /\ IdleMatch /\ IdleRecommend

\* most rows a warehouse query yields
MaxBqRows == 2

BqRows == {[school_name |-> Val(n)] : n \in {"A", "B"}}

\* what an execution of a query can meet
Executions ==
    {Raise("GoogleAPIError")} \cup {Return(l) : l \in SeqsUpTo(BqRows, MaxBqRows)}

FindTools ==
    {"find_high_need_low_tech_spending", "find_high_graduation_low_funding",
     "find_strong_stem_low_class_size"}

ToolContexts ==
    {None} \cup
    {Val([project_id |-> p, last_bq_query |-> Absent,
          last_bq_row_count |-> Absent]) :
        p \in {Absent, None, Val(""), Val("a4i")}}

InitWarehouse ==
    /\ tool_context \in ToolContexts
    /\ tool_call = NotCalled
    /\ tool_ret = NotCalled
    /\ IdleMatcher /\ IdleQuery /\ IdleLater

\* one call of a find_* tool, its two queries included
FindSchools ==
    /\ tool_ret = NotCalled
    /\ \E tool \in FindTools, averages \in Executions, execution \in Executions :
          /\ tool_call' = Return([tool |-> tool, context |-> tool_context,
                                  averages |-> averages,
                                  execution |-> execution])
          /\ tool_ret' = Return(FindResult(tool, tool_context, averages,
                                           execution))
          /\ tool_context' = FindState(tool, tool_context, averages, execution)
    /\ UNCHANGED <<matcherVars, queryVars, laterVars>>

NextWarehouse == FindSchools

SpecWarehouse == InitWarehouse /\ [][NextWarehouse]_vars

\* a row of ccd_directory joined with the graduation, AP and gifted tables
JoinedRow(lv, ap, gt, g, r, e, ch) ==
    [ncessch |-> Val("N1"), school_name |-> Val("A"),
     city_location |-> Val(<<"S", "f">>), school_level |-> lv,
     enrollment |-> e, student_teacher_ratio |-> r, charter |-> ch,
     graduation_rate |-> g, sch_apcourses |-> ap, gt_combokey |-> gt]

\* school levels with the AP course counts of the joined AP row: every tier
\* boundary for a high school, a count the stage discards for the others
LevelsAndApCourses ==
    ({Val(3)} \X {None, Val(-9), Val(0), Val(1), Val(4), Val(5), Val(9), Val(10)})
    \cup ({None, Val(2), Val(4)} \X {None, Val(5)})

ScoreGradRates == {None, Val(69), Val(70), Val(80), Val(89), Val(90)}

ScoreRatios ==
    {Val(150), Val(151), Val(180), Val(181), Val(200), Val(201), Val(220),
     Val(221), Val(250), Val(251)}

ScoreEnrollments ==
    {Val(49), Val(99), Val(100), Val(199), Val(200), Val(800), Val(801),
     Val(1500), Val(1501)}

\* one-row tables that take every tier of the scoring expression
ScoreTables ==
    {<<JoinedRow(la[1], la[2], gt, g, r, e, ch)>> :
        la \in LevelsAndApCourses, gt \in {None, Val("K")},
        g \in ScoreGradRates, r \in ScoreRatios, e \in ScoreEnrollments,
        ch \in Charters}

\* the scores of l at which a float sum may land below the decimal value
FloatSumsBelow(l) ==
    {l[i].base_match_score[2] : i \in {k \in 1..Len(l) : SumBelowDecimal(l[k])}}
        \cap {850}

InitScore ==
    /\ student_profile = NoPreference
    /\ q_rows \in ScoreTables
    /\ q_stage = "joined"
    /\ limit_arg = DefaultLimit
    /\ built_query = NotCalled /\ fp_sum_below = {}
    /\ school = DefaultSchool /\ reasons = NotCalled
    /\ IdleRank /\ IdleMatch /\ IdleRecommend /\ IdleWarehouse /\ IdleLater

QueryFrame ==
    UNCHANGED <<matcherVars, warehouseVars, laterVars, limit_arg, built_query>>

\* WITH school_data AS (...)
SchoolDataStage ==
    /\ q_stage = "joined"
    /\ q_rows' = SchoolData(q_rows,
                            build_matching_query(student_profile, limit_arg))
    /\ q_stage' = "school_data"
    /\ UNCHANGED fp_sum_below
    /\ QueryFrame

\* scored_schools AS (...)
ScoredSchoolsStage ==
    /\ q_stage = "school_data"
    /\ q_rows' = ScoredSchools(q_rows)
    /\ q_stage' = "scored_schools"
    /\ UNCHANGED fp_sum_below
    /\ QueryFrame

\* SELECT ... FROM scored_schools WHERE ... ORDER BY ... LIMIT limit
FinalSelectStage ==
    /\ q_stage = "scored_schools"
    /\ \E below \in SUBSET FloatSumsBelow(q_rows) :
          /\ fp_sum_below' = below
          /\ q_rows' \in FinalSelect(q_rows,
                 build_matching_query(student_profile, limit_arg), below)
    /\ q_stage' = "selected"
    /\ QueryFrame

NextScore == SchoolDataStage \/ ScoredSchoolsStage \/ FinalSelectStage

SpecScore == InitScore /\ [][NextScore]_vars

\* values of match_schools' limit argument, which it hands on unchanged
Limits == {0, 1, 20, 99, 100, 101, 150, 1000}

InitBuildQuery ==
    /\ student_profile \in MatchProfiles
    /\ limit_arg \in Limits
    /\ built_query = NotCalled
    /\ q_stage = "idle" /\ q_rows = <<>> /\ fp_sum_below = {}
    /\ school = DefaultSchool /\ reasons = NotCalled
    /\ IdleRank /\ IdleMatch /\ IdleRecommend /\ IdleWarehouse /\ IdleLater

\* one call of _build_matching_query
BuildMatchingQuery ==
    /\ built_query = NotCalled
    /\ built_query' =
           IF HomeCityRaises(student_profile) THEN Raise("AttributeError")
           ELSE IF BuildQueryRaises(student_profile) THEN Raise("TypeError")
           ELSE Return(build_matching_query(student_profile, limit_arg))
    /\ UNCHANGED <<matcherVars, warehouseVars, laterVars, limit_arg, q_stage, q_rows,
                   fp_sum_below>>

NextBuildQuery == BuildMatchingQuery

SpecBuildQuery == InitBuildQuery /\ [][NextBuildQuery]_vars

\* The pipeline: the rows of the query go through match_schools, its result
\* to rank_schools and the ranked list to generate_school_recommendations.

\* for row in results: ... seen_schools[ncessch] = school, over all rows
RECURSIVE DedupRows(_, _)
DedupRows(seen, rows) ==
    IF rows = <<>> THEN seen
    ELSE DedupRows(DedupRow(seen, Head(rows)), Tail(rows))

\* the <<base, location>> operands of l whose adjusted score is a decimal tie
TiesOf(l, profile) ==
    {o \in {<<l[i].base_match_score[2], loc>> : i \in 1..Len(l), loc \in {500, 1000}} :
        AdjustedScore(o[1], o[2]) % 100 = 50}

PipelineRows ==
    {JoinedRow(la[1], la[2], gt, g, r, e, ch) :
        la \in {<<Val(3), Val(10)>>, <<Val(3), Val(0)>>, <<Val(2), None>>},
        gt \in {None, Val("K")}, g \in {None, Val(69), Val(90)},
        r \in {Val(150), Val(200), Val(251)}, e \in {Val(500), Val(1501)},
        ch \in Charters}

\* rows of two-row tables: two keys, two cities
PipelinePairRows ==
    {[JoinedRow(Val(3), Val(10), Val("K"), g, Val(150), Val(500), Val(0))
          EXCEPT !.ncessch = k, !.city_location = c] :
        g \in {Val(69), Val(90)}, k \in {Val("N1"), Val("N2")},
        c \in {Val(<<"S", "f">>), Val(<<"O", "z">>)}}

PipelineTables ==
    {<<j>> : j \in PipelineRows} \cup [1..2 -> PipelinePairRows]

PipelineProfiles ==
    [location : {Absent, Val([city |-> Val(<<"s", "f">>)])},
     school_level : {Absent, Val(3)},
     interest_stem : {FALSE}, needs_gifted : {FALSE}]

InitPipeline ==
    /\ student_profile \in PipelineProfiles
    /\ q_rows \in PipelineTables
    /\ q_stage = "joined"
    /\ limit_arg = DefaultLimit
    /\ built_query = NotCalled /\ fp_sum_below = {}
    /\ school = DefaultSchool /\ reasons = NotCalled
    /\ IdleRank /\ IdleMatch /\ IdleRecommend /\ IdleWarehouse /\ IdleLater

PipelineFrame ==
    UNCHANGED <<student_profile, school, reasons, results, ms_pc, query, ms_row,
                seen_schools, ms_exc, ms_ret, warehouseVars, laterVars, limit_arg,
                built_query, q_rows, fp_sum_below>>

\* match_schools hands on the rows of the query, one per ncessch
MatchStage ==
    /\ q_stage = "selected"
    /\ schools' = DedupRows(<<>>, q_rows)
    /\ q_stage' = "matched"
    /\ UNCHANGED <<rank_ret, fp_round_up, ranked_schools, rec_ret>>
    /\ PipelineFrame

\* rank_schools on the schools match_schools returned
RankStage ==
    /\ q_stage = "matched"
    /\ \E up \in SUBSET TiesOf(schools, student_profile) :
          /\ fp_round_up' = up
          /\ rank_ret' = rank_schools(schools, student_profile, up)
    /\ q_stage' = "ranked"
    /\ UNCHANGED <<schools, ranked_schools, rec_ret>>
    /\ PipelineFrame

\* generate_school_recommendations on the list rank_schools returned
RecommendStage ==
    /\ q_stage = "ranked"
    /\ rank_ret[1] = "return"
    /\ ranked_schools' = rank_ret[2]
    /\ rec_ret' = generate_school_recommendations(rank_ret[2], student_profile)
    /\ q_stage' = "recommended"
    /\ UNCHANGED <<schools, rank_ret, fp_round_up>>
    /\ PipelineFrame

NextPipeline ==
    \/ SchoolDataStage \/ ScoredSchoolsStage \/ FinalSelectStage
    \/ MatchStage \/ RankStage \/ RecommendStage

SpecPipeline == InitPipeline /\ [][NextPipeline]_vars

\* Three schools that share school level, AP courses, gifted program and
\* enrollment, each with the base_match_score of the scoring expression: A in
\* the home city, B elsewhere, C a charter school in the home city.
\* <<"S", "f">> stands for Springfield.
ScenarioSchool(name, key, city, g, r, ch, la, gt, e) ==
    ScoredRow([SchoolDataRow(JoinedRow(la[1], la[2], gt, Val(g), Val(r), e, ch))
                  EXCEPT !.school_name = Val(name), !.ncessch = Val(key),
                         !.city_location = Val(city)])

ScenarioSchools(b_charter, la, gt, e) ==
    << ScenarioSchool("A", "N1", <<"S", "f">>, 92, 140, Val(0), la, gt, e),
       ScenarioSchool("B", "N2", <<"O", "z">>, 60, 300, b_charter, la, gt, e),
       ScenarioSchool("C", "N3", <<"S", "f">>, 85, 180, Val(1), la, gt, e) >>

\* the three schools in every order
ScenarioLists ==
    {[i \in 1..3 |-> ScenarioSchools(b_charter, la, gt, e)[f[i]]] :
        f \in Orderings(3), b_charter \in Charters,
        la \in {<<Val(3), Val(0)>>, <<Val(3), Val(10)>>, <<Val(2), None>>},
        gt \in {None, Val("K")}, e \in {Val(99), Val(500), Val(1501)}}

ScenarioProfiles ==
    [location : {Val([city |-> Val(<<"S", "f">>)]),
                 Val([city |-> Val(<<"s", "f">>)])},
     school_level : {Absent}, interest_stem : {FALSE}, needs_gifted : {FALSE}]

InitScenario ==
    /\ student_profile \in ScenarioProfiles
    /\ schools \in ScenarioLists
    /\ rank_ret = NotCalled
    /\ fp_round_up \in SUBSET TiesOf(schools, student_profile)
    /\ IdleReasoning /\ IdleMatch /\ IdleRecommend
    /\ IdleWarehouse /\ IdleQuery /\ IdleLater

NextScenario == RankSchools

SpecScenario == InitScenario /\ [][NextScenario]_vars

\* Concurrent requests.  match_schools keeps its data in local variables; the
\* one location outside the call is the file /tmp/school_match_query.sql,
\* which every call opens for writing under the same name.

Requests == {1, 2}

\* the characters the arguments add to the fixed text of the query
QueryLength(q) ==
    (IF q.level_filter # None THEN 23 ELSE 0)
        + (IF q.city_filter # None THEN 32 + Len(q.city_filter[2]) ELSE 0)
        + (IF q.limit >= 100 THEN 3 ELSE 2)

\* A file is the sequence of its stretches of text, each the characters of one
\* query up to the length upto, counted over the fixed text.
FileOf(q) == <<[text |-> q, upto |-> QueryLength(q)]>>

\* a write of the whole query at offset 0 of a handle opened before: what the
\* file holds beyond the length of the query stays
WriteAtStart(file, q) ==
    LET Beyond(stretch) == stretch.upto > QueryLength(q)
    IN  FileOf(q) \o SelectSeq(file, Beyond)

RequestProfiles ==
    [location : {Absent, Val([city |-> Val(<<"s", "f">>)])},
     school_level : {Absent, Val(3)},
     interest_stem : {FALSE}, needs_gifted : {FALSE}]

RequestArguments ==
    [student_profile : RequestProfiles, limit : {DefaultLimit, 150},
     results : {<<>>, <<[DefaultSchool EXCEPT !.ncessch = Val("N1")]>>}]

InitRequests ==
    /\ requests \in [Requests -> RequestArguments]
    /\ req_pc = [r \in Requests |-> "build"]
    /\ req_query = [r \in Requests |-> None]
    /\ req_ret = [r \in Requests |-> NotCalled]
    /\ query_file = <<>>
    /\ IdleMatcher /\ IdleWarehouse /\ IdleQuery /\ IdleInsights /\ IdleBq
    /\ IdleObjects /\ IdleRerank /\ IdleInteractive

RequestFrame ==
    UNCHANGED <<matcherVars, warehouseVars, queryVars, requests, insightVars,
                bq_calls, objectVars, rerank_ret, interactiveVars>>

\* query = _build_matching_query(...)
ReqBuildQuery(r) ==
    /\ req_pc[r] = "build"
    /\ req_query' = [req_query EXCEPT ![r] =
           Val(build_matching_query(requests[r].student_profile, requests[r].limit))]
    /\ req_pc' = [req_pc EXCEPT ![r] = "open"]
    /\ UNCHANGED <<req_ret, query_file>>
    /\ RequestFrame

\* open('/tmp/school_match_query.sql', 'w') truncates the file
ReqOpen(r) ==
    /\ req_pc[r] = "open"
    /\ query_file' = <<>>
    /\ req_pc' = [req_pc EXCEPT ![r] = "write"]
    /\ UNCHANGED <<req_query, req_ret>>
    /\ RequestFrame

\* f.write(query) and the close at the end of the with block
ReqWrite(r) ==
    /\ req_pc[r] = "write"
    /\ query_file' = WriteAtStart(query_file, req_query[r][2])
    /\ req_pc' = [req_pc EXCEPT ![r] = "execute"]
    /\ UNCHANGED <<req_query, req_ret>>
    /\ RequestFrame

\* the query job, the loop over its rows and the return
ReqExecute(r) ==
    /\ req_pc[r] = "execute"
    /\ req_ret' = [req_ret EXCEPT ![r] =
           Return(MatchResult(DedupRows(<<>>, requests[r].results),
                              req_query[r], requests[r].student_profile))]
    /\ req_pc' = [req_pc EXCEPT ![r] = "done"]
    /\ UNCHANGED <<req_query, query_file>>
    /\ RequestFrame

NextRequests ==
    \E r \in Requests :
        ReqBuildQuery(r) \/ ReqOpen(r) \/ ReqWrite(r) \/ ReqExecute(r)

SpecRequests == InitRequests /\ [][NextRequests]_vars

\* src/agents/insights_agent_tool.py: get_insights_and_recommendations.  The
\* two sub-agents are module globals, created by the first call; agent_runs is
\* the sequence of requests the sub-agents have been sent.

LowerLetter(c) ==
    CASE c = "P" -> "p"
      [] c = "T" -> "t"
      [] c = "E" -> "e"
      [] c = "B" -> "b"
      [] c = "Q" -> "q"
      [] OTHER -> c

\* str.lower()
Lower(s) == [i \in 1..Len(s) |-> LowerLetter(s[i])]

\* word in s
Contains(s, word) ==
    \E i \in 1..Len(s) : i + Len(word) - 1 <= Len(s)
                            /\ SubSeq(s, i, i + Len(word) - 1) = word

QueryWords ==
    {<<"p", "a", "r", "e", "n", "t">>,
     <<"P", "a", "r", "e", "n", "t">>,
     <<"g", "r", "a", "n", "d", "p", "a", "r", "e", "n", "t", "s">>,
     <<"t", "e", "a", "c", "h", "e", "r">>,
     <<"E", "d", "u", "c", "a", "t", "o", "r">>,
     <<"o", "f", "f", "i", "c", "i", "a", "l">>,
     <<"B", "o", "a", "r", "d">>,
     <<"p", "o", "l", "i", "c", "y">>,
     <<"s", "c", "h", "o", "o", "l">>}

InsightQueries ==
    QueryWords \cup {a \o <<" ">> \o b : a \in QueryWords, b \in QueryWords}

UserType(q) ==
    LET query_lower == Lower(q)
    IN  IF Contains(query_lower, <<"p", "a", "r", "e", "n", "t">>) THEN "parent"
        ELSE IF Contains(query_lower, <<"t", "e", "a", "c", "h", "e", "r">>)
                    \/ Contains(query_lower, <<"e", "d", "u", "c", "a", "t", "o", "r">>) THEN "educator"
        ELSE IF Contains(query_lower, <<"o", "f", "f", "i", "c", "i", "a", "l">>)
                    \/ Contains(query_lower, <<"b", "o", "a", "r", "d">>)
                    \/ Contains(query_lower, <<"p", "o", "l", "i", "c", "y">>) THEN "official"
        ELSE "general"

\* the three canned recommendations of each user type, named by their first
\* words
CannedRecommendations(user_type) ==
    CASE user_type = "parent" ->
            <<"Talk to your child's teacher", "Request an assessment",
              "Ask the school about tutoring">>
      [] user_type = "educator" ->
            <<"Implement targeted small-group instruction",
              "Use formative assessments", "Consider evidence-based intervention">>
      [] user_type = "official" ->
            <<"Analyze funding allocation", "Invest in evidence-based early intervention",
              "Establish data-driven accountability">>
      [] OTHER ->
            <<"Review school performance data", "Focus resources",
              "Engage stakeholders">>

InsightsResult(q) ==
    [status |-> "success", insights |-> q,
     recommendations |-> CannedRecommendations(UserType(q)),
     user_type |-> UserType(q),
     note |-> "Recommendations tailored based on detected user type"]

InitInsights ==
    /\ ins_query \in InsightQueries
    /\ ins_pc = "agents" /\ ins_ret = NotCalled
    /\ recommender_agent = None /\ critique_agent = None
    /\ agent_runs = <<>>
    /\ IdleMatcher /\ IdleWarehouse /\ IdleQuery /\ IdleRequests /\ IdleBq
    /\ IdleObjects /\ IdleRerank /\ IdleInteractive

InsightsFrame ==
    UNCHANGED <<matcherVars, warehouseVars, queryVars, requestVars, bq_calls,
                objectVars, rerank_ret, interactiveVars>>

\* if _recommender_agent is None: ...; if _critique_agent is None: ...
\* An agent that cannot be created raises out of the call; the recommender
\* created before it stays in its global.
InsCreateAgents ==
    /\ ins_pc = "agents"
    /\ \E recommender_ok \in BOOLEAN, critique_ok \in BOOLEAN :
          /\ recommender_agent' =
                 IF recommender_agent = None /\ recommender_ok
                     THEN Val("RecommenderAgent") ELSE recommender_agent
          /\ critique_agent' =
                 IF recommender_agent' # None /\ critique_agent = None /\ critique_ok
                     THEN Val("CritiqueAgent") ELSE critique_agent
          /\ IF recommender_agent' # None /\ critique_agent' # None
                 THEN ins_pc' = "respond" /\ UNCHANGED ins_ret
             ELSE ins_pc' = "done" /\ ins_ret' = Raise("Exception")
    /\ UNCHANGED <<ins_query, agent_runs>>
    /\ InsightsFrame

\* the user type found in the query, its canned recommendations, the return
InsRespond ==
    /\ ins_pc = "respond"
    /\ ins_ret' = Return(InsightsResult(ins_query))
    /\ ins_pc' = "done"
    /\ UNCHANGED <<ins_query, recommender_agent, critique_agent, agent_runs>>
    /\ InsightsFrame

\* the root agent calls the tool again
InsCall ==
    /\ ins_pc = "done"
    /\ ins_query' \in InsightQueries
    /\ ins_pc' = "agents" /\ ins_ret' = NotCalled
    /\ UNCHANGED <<recommender_agent, critique_agent, agent_runs>>
    /\ InsightsFrame

NextInsights == InsCreateAgents \/ InsRespond \/ InsCall

SpecInsights == InitInsights /\ [][NextInsights]_vars

\* query_bigquery called again and again on one tool context; bq_calls is the
\* history of the calls, each with its query and the dict it returned.

\* most calls of query_bigquery on one context
MaxBqCalls == 3

SqlQueries == {"SELECT 1", "SELECT 2"}

BqExecutions ==
    {Raise("GoogleAPIError")}
        \cup {Return(l) : l \in SeqsUpTo({[school_name |-> Val("A")]}, MaxBqRows)}

InitQueryBigquery ==
    /\ tool_context \in ToolContexts
    /\ tool_call = NotCalled
    /\ tool_ret = NotCalled
    /\ bq_calls = <<>>
    /\ IdleMatcher /\ IdleQuery /\ IdleRequests /\ IdleInsights /\ IdleObjects
    /\ IdleRerank /\ IdleInteractive

\* one call of query_bigquery
QueryBigquery ==
    /\ Len(bq_calls) < MaxBqCalls
    /\ \E sql_query \in SqlQueries, execution \in BqExecutions :
          LET result == QueryBigqueryResult(sql_query, tool_context, execution)
          IN  /\ tool_call' = Return([tool |-> "query_bigquery",
                                      context |-> tool_context,
                                      averages |-> NotCalled,
                                      execution |-> execution])
              /\ tool_ret' = Return(result)
              /\ tool_context' = QueryBigqueryState(sql_query, tool_context,
                                                    execution)
              /\ bq_calls' = Append(bq_calls, [sql_query |-> sql_query,
                                               result |-> result])
    /\ UNCHANGED <<matcherVars, queryVars, requestVars, insightVars, objectVars,
                   rerank_ret, interactiveVars>>

NextQueryBigquery == QueryBigquery

SpecQueryBigquery == InitQueryBigquery /\ [][NextQueryBigquery]_vars

\* rank_schools on objects.  A dict is an object of the heap `objects`, named
\* by its index; a list holds references.  schools keeps the records of the
\* caller's list as they were at the call.

\* longest list of objects handed to rank_schools
MaxObjects == 2

ObjectSchools ==
    {[DefaultSchool EXCEPT !.base_match_score = b, !.city_location = c] :
        b \in {None, Val(510), Val(700)},
        c \in {Val(<<"S", "f">>), Val(<<"O", "z">>)}}

ObjectProfiles ==
    [location : {Absent, Val([city |-> None]), Val([city |-> Val(<<"s", "f">>)])},
     school_level : {Absent}, interest_stem : {FALSE}, needs_gifted : {FALSE}]

\* variant: enriched_school = school, the same object
DictAlias(heap, ref) == [heap |-> heap, ref |-> ref]

\* school.copy(): a new object with the keys and values of the old one
DictCopy(heap, ref) == [heap |-> Append(heap, heap[ref]), ref |-> Len(heap) + 1]

\* ranked_schools.sort(key=lambda x: x["match_score"], reverse=True) on
\* references: stable, as InsertDesc
RECURSIVE InsertRefDesc(_, _, _)
InsertRefDesc(sorted, x, heap) ==
    IF sorted = <<>> THEN <<x>>
    ELSE IF heap[Head(sorted)].match_score[2] < heap[x].match_score[2]
        THEN <<x>> \o sorted
    ELSE <<Head(sorted)>> \o InsertRefDesc(Tail(sorted), x, heap)

RECURSIVE SortRefs(_, _)
SortRefs(refs, heap) ==
    IF refs = <<>> THEN <<>>
    ELSE InsertRefDesc(SortRefs(SubSeq(refs, 1, Len(refs) - 1), heap),
                       refs[Len(refs)], heap)

\* school["rank"] = i for each reference of the list in turn
RankRefs(refs, heap) ==
    [ref \in DOMAIN heap |->
        LET at == {i \in 1..Len(refs) : refs[i] = ref}
        IN  IF at = {} THEN heap[ref]
            ELSE [heap[ref] EXCEPT
                     !.rank = Val(CHOOSE i \in at : \A j \in at : j <= i)]]

InitRankObjects ==
    /\ student_profile \in ObjectProfiles
    /\ schools \in SeqsUpTo(ObjectSchools, MaxObjects)
    /\ fp_round_up \in SUBSET TiesOf(SelectSeq(schools, LAMBDA s : ~ScoreRaises(s)),
                                     student_profile)
    /\ rank_ret = NotCalled
    /\ objects = schools
    /\ rs_schools = [i \in 1..Len(schools) |-> i]
    /\ rs_pc = "start" /\ rs_i = 1 /\ rs_ranked = <<>> /\ rs_ret = NotCalled
    /\ IdleReasoning /\ IdleMatch /\ IdleRecommend
    /\ IdleWarehouse /\ IdleQuery /\ IdleRequests /\ IdleInsights /\ IdleBq
    /\ IdleRerank /\ IdleInteractive

RankObjectsFrame ==
    UNCHANGED <<matcherVars, warehouseVars, queryVars, requestVars, insightVars,
                bq_calls, rs_schools, rerank_ret, interactiveVars>>

\* location = ...; home_city = ...; ranked_schools = []
RsStart ==
    /\ rs_pc = "start"
    /\ rs_pc' = IF HomeCityRaises(student_profile) THEN "except" ELSE "loop"
    /\ UNCHANGED <<objects, rs_i, rs_ranked, rs_ret>>
    /\ RankObjectsFrame

\* one iteration of for school in schools
RsSchool ==
    /\ rs_pc = "loop"
    /\ rs_i <= Len(rs_schools)
    /\ LET a_school == objects[rs_schools[rs_i]]
       IN  IF ScoreRaises(a_school) \/ MatchReasoningRaises(a_school, student_profile)
               THEN /\ rs_pc' = "except"
                    /\ UNCHANGED <<objects, rs_i, rs_ranked>>
           ELSE LET copied == DictCopy(objects, rs_schools[rs_i])
                    enriched_school ==
                        [k \in DOMAIN copied.heap[copied.ref] |->
                            IF k \in {"match_score", "match_reasoning",
                                      "admission_type", "distance_score"}
                                THEN Enrich(a_school, student_profile, fp_round_up)[k]
                            ELSE copied.heap[copied.ref][k]]
                IN  /\ objects' = [copied.heap EXCEPT ![copied.ref] = enriched_school]
                    /\ rs_ranked' = Append(rs_ranked, copied.ref)
                    /\ rs_i' = rs_i + 1
                    /\ UNCHANGED rs_pc
    /\ UNCHANGED rs_ret
    /\ RankObjectsFrame

\* ranked_schools.sort(...)
RsSort ==
    /\ rs_pc = "loop"
    /\ rs_i > Len(rs_schools)
    /\ rs_ranked' = SortRefs(rs_ranked, objects)
    /\ rs_pc' = "rank"
    /\ UNCHANGED <<objects, rs_i, rs_ret>>
    /\ RankObjectsFrame

\* for i, school in enumerate(ranked_schools, 1): school["rank"] = i
RsAddRank ==
    /\ rs_pc = "rank"
    /\ objects' = RankRefs(rs_ranked, objects)
    /\ rs_pc' = "return"
    /\ UNCHANGED <<rs_i, rs_ranked, rs_ret>>
    /\ RankObjectsFrame

\* return ranked_schools
RsReturn ==
    /\ rs_pc = "return"
    /\ rs_ret' = Return(rs_ranked)
    /\ rs_pc' = "done"
    /\ UNCHANGED <<objects, rs_i, rs_ranked>>
    /\ RankObjectsFrame

\* except Exception as e: print(...); return schools
RsExcept ==
    /\ rs_pc = "except"
    /\ rs_ret' = Return(rs_schools)
    /\ rs_pc' = "done"
    /\ UNCHANGED <<objects, rs_i, rs_ranked>>
    /\ RankObjectsFrame

NextRankObjects ==
    RsStart \/ RsSchool \/ RsSort \/ RsAddRank \/ RsReturn \/ RsExcept

SpecRankObjects == InitRankObjects /\ [][NextRankObjects]_vars

\* rank_schools called on its own result, with the same profile.

InitRerank ==
    /\ student_profile \in RankProfiles
    /\ schools \in [1..1 -> SingleRankSchools]
                       \cup SeqsUpTo(ListRankSchools, MaxObjects)
    /\ rank_ret = NotCalled /\ rerank_ret = NotCalled
    /\ fp_round_up \in SUBSET {o \in TieOperands : AdjustedScore(o[1], o[2]) % 100 = 50}
    /\ IdleReasoning /\ IdleMatch /\ IdleRecommend
    /\ IdleWarehouse /\ IdleQuery
    /\ IdleRequests /\ IdleInsights /\ IdleBq /\ IdleObjects /\ IdleInteractive

\* rank_schools(ranked, student_profile) on the list the first call returned
RankAgain ==
    /\ rank_ret[1] = "return"
    /\ rerank_ret = NotCalled
    /\ rerank_ret' = rank_schools(rank_ret[2], student_profile, fp_round_up)
    /\ UNCHANGED <<matcherVars, warehouseVars, queryVars, requestVars,
                   insightVars, bq_calls, objectVars, interactiveVars>>

NextRerank == RankSchools \/ RankAgain

SpecRerank == InitRerank /\ [][NextRerank]_vars

\* src/main.py: run_interactive_mode.  im_events is what the terminal and the
\* runner did, in order: a line read, an exception raised (while reading or
\* while running the agent) or the events of a run; im_runs is the calls of
\* runner.run.

\* most turns of one conversation
MaxTurns == 3

TypedLines ==
    {<<>>,
     <<" ">>,
     <<"q">>,
     <<"Q">>,
     <<" ", "q", "u", "i", "t", " ">>,
     <<"E", "x", "i", "t">>,
     <<"b", "y", "e">>,
     <<"q", "u", "i", "t", " ", "i", "t">>,
     <<"h", "i">>,
     <<" ", "B", "e", " ">>}

QuitWords == {<<"q", "u", "i", "t">>,
     <<"e", "x", "i", "t">>,
     <<"b", "y", "e">>,
     <<"q">>}

\* str.strip() on blanks
RECURSIVE StripLeft(_)
StripLeft(s) ==
    IF s # <<>> /\ Head(s) = " " THEN StripLeft(Tail(s)) ELSE s

RECURSIVE StripRight(_)
StripRight(s) ==
    IF s # <<>> /\ s[Len(s)] = " " THEN StripRight(SubSeq(s, 1, Len(s) - 1))
    ELSE s

Strip(s) == StripRight(StripLeft(s))

\* variant: the input compared as typed
IsQuitAsTyped(text) == text \in QuitWords

\* user_input.lower() in ['quit', 'exit', 'bye', 'q']
IsQuit(text) == Lower(text) \in QuitWords

InitInteractive ==
    /\ session_id \in {"uuid-1", "uuid-2"}
    /\ user_id = "local_test_user"
    /\ im_pc = "read" /\ user_input = <<>>
    /\ im_events = <<>> /\ im_runs = <<>> /\ im_out = "tip"
    /\ IdleMatcher /\ IdleWarehouse /\ IdleQuery
    /\ IdleRequests /\ IdleInsights /\ IdleBq /\ IdleObjects /\ IdleRerank

InteractiveFrame ==
    UNCHANGED <<matcherVars, warehouseVars, queryVars, requestVars, insightVars,
                bq_calls, objectVars, rerank_ret, session_id, user_id>>

\* the number of turns taken so far: the returns and the failures of input()
TurnsTaken ==
    Len(SelectSeq(im_events,
                  LAMBDA ev : ev[1] = "line" \/ ev = <<"raise", "EOFError">>))

\* except KeyboardInterrupt: print(...); break
ImInterrupted ==
    /\ im_out' = "Interrupted. Goodbye!"
    /\ im_pc' = "ended"

\* except Exception as e: print(...); traceback.print_exc(); print(...)
ImReported ==
    /\ im_out' = "Error"
    /\ im_pc' = "read"

\* user_input = input("You: ").strip() and the two tests on it
ImRead ==
    /\ im_pc = "read"
    /\ TurnsTaken < MaxTurns
    /\ \/ \E typed \in TypedLines :
             /\ im_events' = Append(im_events, <<"line", typed>>)
             /\ user_input' = Strip(typed)
             /\ IF user_input' = <<>>
                    THEN UNCHANGED <<im_pc, im_out>>
                ELSE IF IsQuit(user_input')
                    THEN im_out' = "Thank you" /\ im_pc' = "ended"
                ELSE im_out' = "Thinking..." /\ im_pc' = "run"
       \/ /\ im_events' = Append(im_events, <<"raise", "KeyboardInterrupt">>)
          /\ ImInterrupted
          /\ UNCHANGED user_input
       \/ /\ im_events' = Append(im_events, <<"raise", "EOFError">>)
          /\ ImReported
          /\ UNCHANGED user_input
    /\ UNCHANGED im_runs
    /\ InteractiveFrame

\* events = runner.run(...) and the loop over the events
ImRun ==
    /\ im_pc = "run"
    /\ im_runs' = Append(im_runs, [new_message |-> user_input,
                                   session_id |-> session_id,
                                   user_id |-> user_id])
    /\ \/ \E final \in BOOLEAN :
             /\ im_events' = Append(im_events, <<"events", final>>)
             /\ im_out' = IF final THEN "final response"
                          ELSE "No final response was generated."
             /\ im_pc' = "read"
       \/ /\ im_events' = Append(im_events, <<"raise", "KeyboardInterrupt">>)
          /\ ImInterrupted
       \/ /\ im_events' = Append(im_events, <<"raise", "Exception">>)
          /\ ImReported
    /\ UNCHANGED user_input
    /\ InteractiveFrame

NextInteractive == ImRead \/ ImRun

SpecInteractive == InitInteractive /\ [][NextInteractive]_vars

----------------------------------------------------------------------------
(* Vocabulary of the properties *)

LowerChar(c) ==
    CASE c = "S" -> "s"
      [] c = "F" -> "f"
      [] c = "O" -> "o"
      [] c = "Z" -> "z"
      [] OTHER -> c

EqualIgnoringCase(a, b) ==
    Len(a) = Len(b) /\ \A i \in 1..Len(a) : LowerChar(a[i]) = LowerChar(b[i])

\* the profile's home city as given; empty when there is none
GivenHomeCity(profile) ==
    IF profile.location[1] = "val" /\ profile.location[2].city[1] = "val"
        THEN profile.location[2].city[2]
    ELSE <<>>

\* the columns of a school as the caller passed it
Columns(s) ==
    <<s.ncessch, s.school_name, s.city_location, s.graduation_rate,
      s.student_teacher_ratio, s.ap_courses, s.has_gifted_program,
      s.enrollment, s.charter, s.base_match_score>>

\* rank_schools has returned from its try block
RankSucceeded ==
    rank_ret # NotCalled /\ ~RankBodyRaises(schools, student_profile)

----------------------------------------------------------------------------
(* C1 *)

\* C1: every list _generate_match_reasoning returns holds at least 3 reasons.
C1_AtLeastThreeReasons ==
    reasons[1] = "return" => Len(reasons[2]) >= 3

----------------------------------------------------------------------------
(* C2 *)

\* C2: the list a successful rank_schools call returns is non-increasing in
\* match_score, and schools of equal match_score keep the relative order they
\* had in the input list.
C2_SortedStable ==
    RankSucceeded =>
        LET out == rank_ret[2]
            N == Len(out)
        IN  /\ \A i \in 1..N : \A j \in (i+1)..N :
                   out[i].match_score[2] >= out[j].match_score[2]
            /\ N = Len(schools)
            /\ \E pi \in Permutations(1..N) :
                   /\ \A i \in 1..N : Columns(out[i]) = Columns(schools[pi[i]])
                   /\ \A i \in 1..N : \A j \in (i+1)..N :
                          out[i].match_score[2] = out[j].match_score[2]
                              => pi[i] < pi[j]

\* the sort moved a school up, past two distinct schools of equal score
C2_Witness ==
    /\ RankSucceeded
    /\ Len(schools) = 3
    /\ Columns(rank_ret[2][1]) = Columns(schools[3])
    /\ rank_ret[2][2].match_score = rank_ret[2][3].match_score
    /\ rank_ret[2][2].ncessch # rank_ret[2][3].ncessch

----------------------------------------------------------------------------
(* C3 *)

\* C3: after a successful rank_schools call on N schools the output has N
\* schools, and the school at position i carries rank i, for i = 1..N.
C3_DenseRanks ==
    RankSucceeded =>
        /\ Len(rank_ret[2]) = Len(schools)
        /\ \A i \in 1..Len(rank_ret[2]) : rank_ret[2][i].rank = Val(i)

C3_Witness ==
    /\ RankSucceeded
    /\ Len(schools) = 3
    /\ rank_ret[2][3].rank = Val(3)

----------------------------------------------------------------------------
(* C4 *)

\* an identity key is present: not None and not the empty string
KeyPresent(k) == k[1] = "val" /\ k[2] # ""

KeyedRows == {i \in 1..Len(results) : KeyPresent(results[i].ncessch)}

DistinctKeys == {results[i].ncessch : i \in KeyedRows}

\* index of the first row that carries key k
FirstRow(k) ==
    CHOOSE i \in KeyedRows :
        /\ results[i].ncessch = k
        /\ \A j \in KeyedRows : results[j].ncessch = k => i <= j

\* C4: when match_schools returns from its try block, the schools list holds
\* one school per distinct ncessch present in the rows, each the first row
\* that carries its key, in order of first occurrence; count, when reported,
\* is the number of distinct keys.
C4_FirstOccurrencePerKey ==
    (ms_pc = "done" /\ ms_exc = None) =>
        LET out == ms_ret[2].schools IN
        /\ Len(out) = Cardinality(DistinctKeys)
        /\ \A a \in 1..Len(out) :
               /\ out[a].ncessch \in DistinctKeys
               /\ out[a] = results[FirstRow(out[a].ncessch)]
        /\ \A a \in 1..Len(out) : \A b \in (a+1)..Len(out) :
               FirstRow(out[a].ncessch) < FirstRow(out[b].ncessch)
        /\ ms_ret[2].status = "success"
               => ms_ret[2].count = Val(Cardinality(DistinctKeys))

\* a later row repeats a key with other columns, and is dropped
C4_Witness ==
    /\ ms_pc = "done" /\ ms_exc = None
    /\ ms_ret[2].status = "success"
    /\ \E i \in KeyedRows : \E j \in KeyedRows :
           /\ i < j
           /\ results[i].ncessch = results[j].ncessch
           /\ results[i] # results[j]
    /\ Cardinality(DistinctKeys) = 2

----------------------------------------------------------------------------
(* C5 *)

CityMissing(s) ==
    s.city_location = Absent \/ s.city_location = None \/ s.city_location = Val(<<>>)

\* C5 as stated: 1.0 without a home city, 1.0 for the home city
\* ignoring case, 0.5 in every other case
C5_LocationScoreAsStated ==
    RankSucceeded =>
        \A i \in 1..Len(rank_ret[2]) :
            LET s == rank_ret[2][i]
                home == GivenHomeCity(student_profile)
            IN  s.distance_score =
                    IF home = <<>> THEN Val(1000)
                    ELSE IF ~CityMissing(s)
                            /\ EqualIgnoringCase(s.city_location[2], home)
                        THEN Val(1000)
                    ELSE Val(500)

\* C5 (amended): distance_score is 1.0 when the profile has no home city,
\* 1.0 when the school has no city (missing, None or empty), 1.0 when the
\* school's city equals the home city ignoring case, and 0.5 otherwise.
C5_LocationScore ==
    RankSucceeded =>
        \A i \in 1..Len(rank_ret[2]) :
            LET s == rank_ret[2][i]
                home == GivenHomeCity(student_profile)
            IN  s.distance_score =
                    IF home = <<>> \/ CityMissing(s) THEN Val(1000)
                    ELSE IF EqualIgnoringCase(s.city_location[2], home)
                        THEN Val(1000)
                    ELSE Val(500)

\* a home city is given and the school's city differs from it only in case
C5_Witness ==
    /\ RankSucceeded
    /\ \E i \in 1..Len(rank_ret[2]) :
           /\ ~CityMissing(rank_ret[2][i])
           /\ rank_ret[2][i].city_location[2] # GivenHomeCity(student_profile)
           /\ EqualIgnoringCase(rank_ret[2][i].city_location[2],
                                GivenHomeCity(student_profile))
           /\ rank_ret[2][i].distance_score = Val(1000)
    /\ \E i \in 1..Len(rank_ret[2]) : rank_ret[2][i].distance_score = Val(500)

----------------------------------------------------------------------------
(* C6 *)

\* C6: match_score is (base x 0.85 + location x 0.15) x 100 rounded to one
\* decimal (no tenth is nearer to the exact value), and lies in [0, 100]
\* when base_match_score lies in [0, 1].
C6_MatchScore ==
    RankSucceeded =>
        \A i \in 1..Len(rank_ret[2]) :
            LET s == rank_ret[2][i]
                base == GetDefault(s.base_match_score, Val(500))[2]
                exact == base * 85 + s.distance_score[2] * 15
                score == s.match_score[2] * 100
            IN  /\ score - exact <= 50
                /\ exact - score <= 50
                /\ (0 <= base /\ base <= 1000)
                       => (0 <= s.match_score[2] /\ s.match_score[2] <= 1000)

\* a score that was rounded up to the next tenth, and the score 100.0
C6_Witness ==
    /\ RankSucceeded
    /\ Len(rank_ret[2]) = 1
    /\ \/ rank_ret[2][1].match_score = Val(1000)
       \/ /\ rank_ret[2][1].base_match_score = Val(707)
          /\ rank_ret[2][1].match_score = Val(751)

----------------------------------------------------------------------------
(* C7 *)

\* scoring or reasoning raises for this school
Malformed(s, profile) ==
    \/ s.base_match_score = None
    \/ s.city_location = None /\ GivenHomeCity(profile) # <<>>

\* C7: rank_schools never raises, and when scoring or reasoning raises for
\* some school it returns the input list: the same schools in the same
\* order, without match_score, match_reasoning, rank or the other added keys.
C7_FallbackReturnsInput ==
    rank_ret # NotCalled =>
        /\ rank_ret[1] = "return"
        /\ (\E i \in 1..Len(schools) : Malformed(schools[i], student_profile))
               => /\ rank_ret[2] = schools
                  /\ \A i \in 1..Len(rank_ret[2]) :
                         /\ rank_ret[2][i].match_score = Absent
                         /\ rank_ret[2][i].match_reasoning = Absent
                         /\ rank_ret[2][i].rank = Absent
                         /\ rank_ret[2][i].distance_score = Absent
                         /\ rank_ret[2][i].admission_type = Absent

\* the second school is malformed, after a first one that was scored
C7_Witness ==
    /\ rank_ret # NotCalled
    /\ Len(schools) = 3
    /\ ~Malformed(schools[1], student_profile)
    /\ Malformed(schools[2], student_profile)
    /\ rank_ret = Return(schools)

----------------------------------------------------------------------------
(* C8 *)

AllNumeric(l) == \A i \in 1..Len(l) : l[i].match_score[1] = "val"

InConsider(s) == s.match_score[2] < 500

\* how many of the four tiers hold s
TiersHolding(s) ==
    Cardinality({k \in 1..4 :
        \/ k = 1 /\ InExcellent(s)
        \/ k = 2 /\ InGood(s)
        \/ k = 3 /\ InFair(s)
        \/ k = 4 /\ InConsider(s)})

NumExcellent(l) == Cardinality({i \in 1..Len(l) : InExcellent(l[i])})
NumGood(l) == Cardinality({i \in 1..Len(l) : InGood(l[i])})
NumFair(l) == Cardinality({i \in 1..Len(l) : InFair(l[i])})
NumConsider(l) == Cardinality({i \in 1..Len(l) : InConsider(l[i])})

\* C8: for a non-empty list whose schools all carry a numeric match_score,
\* the call succeeds, every school is in exactly one of the tiers Excellent,
\* Good, Fair and Consider, the summary reports the full size of the first
\* three, and the four sizes add up to total_matches.
C8_TiersPartition ==
    (rec_ret # NotCalled /\ ranked_schools # <<>> /\ AllNumeric(ranked_schools)) =>
        LET l == ranked_schools
            r == rec_ret[2]
        IN  /\ r.status = "success"
            /\ \A i \in 1..Len(l) : TiersHolding(l[i]) = 1
            /\ r.summary[2].excellent = NumExcellent(l)
            /\ r.summary[2].good = NumGood(l)
            /\ r.summary[2].fair = NumFair(l)
            /\ r.summary[2].excellent + r.summary[2].good + r.summary[2].fair
                   + NumConsider(l) = r.total_matches[2]
            /\ r.summary[2].found = r.total_matches[2]

\* more Excellent schools than by_category shows, and a Consider school
C8_Witness ==
    /\ rec_ret # NotCalled /\ ranked_schools # <<>> /\ AllNumeric(ranked_schools)
    /\ rec_ret[2].status = "success"
    /\ rec_ret[2].summary[2].excellent = 6
    /\ Len(rec_ret[2].by_category[2].excellent) = 5
    /\ NumConsider(ranked_schools) > 0
    /\ rec_ret[2].summary[2].good > 0

----------------------------------------------------------------------------
(* C9 *)

\* C9 as stated: an empty list gives status no_recommendations
\* together with an application strategy that is empty
C9_EmptyStrategyAsStated ==
    (rec_ret # NotCalled /\ ranked_schools = <<>>) =>
        /\ rec_ret[1] = "return"
        /\ rec_ret[2].status = "no_recommendations"
        /\ rec_ret[2].application_strategy[1] = "val"
        /\ rec_ret[2].application_strategy[2].top_choice = None
        /\ rec_ret[2].application_strategy[2].next_steps = <<>>

\* C9 (amended): an empty list gives status no_recommendations with a
\* message and an empty recommendations list; the result carries no
\* application strategy; no exception is raised.
C9_EmptyListNoRecommendations ==
    (rec_ret # NotCalled /\ ranked_schools = <<>>) =>
        /\ rec_ret[1] = "return"
        /\ rec_ret[2].status = "no_recommendations"
        /\ rec_ret[2].message[1] = "val"
        /\ rec_ret[2].recommendations = Val(<<>>)
        /\ rec_ret[2].application_strategy = Absent

C9_Witness ==
    /\ rec_ret # NotCalled
    /\ ranked_schools = <<>>
    /\ rec_ret[2].status = "no_recommendations"

----------------------------------------------------------------------------
(* C10 *)

\* C10: match_schools never raises.  When a step of the try block fails the
\* result has status error, a message and no schools; when none fails and
\* no row carries a key it has status no_matches and no schools; otherwise
\* it has status success and a non-empty schools list of length count.
C10_MatchSchoolsOutcome ==
    /\ ms_ret[1] # "raise"
    /\ ms_pc = "done" =>
        /\ ms_ret[1] = "return"
        /\ ms_exc # None =>
               /\ ms_ret[2].status = "error"
               /\ ms_ret[2].message[1] = "val"
               /\ ms_ret[2].schools = <<>>
        /\ (ms_exc = None /\ KeyedRows = {}) =>
               /\ ms_ret[2].status = "no_matches"
               /\ ms_ret[2].schools = <<>>
        /\ (ms_exc = None /\ KeyedRows # {}) =>
               /\ ms_ret[2].status = "success"
               /\ ms_ret[2].schools # <<>>
               /\ ms_ret[2].count = Val(Len(ms_ret[2].schools))

\* a row failed after another had been kept: the result is an error without
\* schools
C10_Witness ==
    /\ ms_pc = "done"
    /\ ms_exc = Val("GoogleAPIError")
    /\ seen_schools # <<>>
    /\ ms_ret[2].status = "error"
    /\ ms_ret[2].schools = <<>>

----------------------------------------------------------------------------
(* The find_* tools *)

ToolReturned == tool_ret[1] = "return"

\* what the tool returns for the same call when its query yields zero rows
ZeroRowResult ==
    FindResult(tool_call[2].tool, tool_call[2].context, tool_call[2].averages,
               Return(<<>>))

\* C11: when the query of a find_* tool ends in an execution error inside
\* query_bigquery, the tool reports a status different from the status it
\* reports for the same call when the query yields zero rows.
C11_ZeroRowsDistinctFromError ==
    (ToolReturned /\ tool_call[2].context # None
        /\ ~ProjectIdFalsy(tool_call[2].context[2])
        /\ tool_call[2].execution[1] = "raise")
    => tool_ret[2].status # ZeroRowResult.status

----------------------------------------------------------------------------
(* The scoring expression *)

\* the rows of q_rows carry a base_match_score
Scored == q_stage \in {"scored_schools", "selected"}

\* what the terms other than School Quality add to a row's score, and what
\* is left for School Quality, in ten-thousandths
OtherShares(r) ==
    Programs(r) * 25 + Environment(r) * 20 + 15 * 80 + AdmissionFit(r) * 10
QualityShare(r) == r.base_match_score[2] * 10 - OtherShares(r)

\* C12: the base_match_score of every scored row is 0.30 x Quality + 0.25 x
\* Programs + 0.20 x Environment + 0.15 x 0.8 + 0.10 x Admission, each
\* sub-score lies in [0, 1] and so does the score, whatever columns are NULL.
C12_WeightedSum ==
    Scored =>
        \A i \in 1..Len(q_rows) :
            LET r == q_rows[i] IN
            /\ SchoolQuality(r) \in 0..100
            /\ Programs(r) \in 0..100
            /\ Environment(r) \in 0..100
            /\ AdmissionFit(r) \in 0..100
            /\ r.base_match_score[2] * 10 =
                   30 * SchoolQuality(r) + 25 * Programs(r)
                       + 20 * Environment(r) + 15 * 80 + 10 * AdmissionFit(r)
            /\ r.base_match_score[2] \in 0..1000

\* a scored row whose graduation rate, AP count and charter flag are NULL
C12_Witness ==
    /\ q_stage = "scored_schools"
    /\ \E i \in 1..Len(q_rows) :
          /\ q_rows[i].graduation_rate = None
          /\ q_rows[i].ap_courses = None
          /\ q_rows[i].charter = None
          /\ q_rows[i].base_match_score[1] = "val"

\* C13: School Quality is 0.5 x graduation tier + 0.5 x class-size tier; it
\* is 1.0 when the graduation rate is not NULL and >= 90 and the ratio is
\* <= 15; the graduation tier is 0.7 when the graduation rate is NULL and the
\* school level is below high school.
C13_Quality ==
    Scored =>
        \A i \in 1..Len(q_rows) :
            LET r == q_rows[i] IN
            /\ QualityShare(r) = 30 * (5 * GradTier(r) + 5 * ClassSizeTier(r))
            /\ (SqlGe(r.graduation_rate, 90) /\ SqlLe(r.student_teacher_ratio, 150))
                   => QualityShare(r) = 30 * 100
            /\ (r.graduation_rate = None /\ SqlLt(r.school_level, 3))
                   => /\ GradTier(r) = 7
                      /\ QualityShare(r) = 30 * (5 * 7 + 5 * ClassSizeTier(r))

\* a scored middle school without graduation data
C13_Witness ==
    /\ q_stage = "scored_schools"
    /\ \E i \in 1..Len(q_rows) :
          /\ q_rows[i].graduation_rate = None
          /\ q_rows[i].school_level = Val(2)
          /\ QualityShare(q_rows[i]) = 30 * (5 * 7 + 5 * 10)

\* what the terms other than Programs & Services leave of a row's score
ProgramsShare(r) ==
    r.base_match_score[2] * 10
        - (SchoolQuality(r) * 30 + Environment(r) * 20 + 15 * 80
               + AdmissionFit(r) * 10)

\* C14: a row of school_data has ap_courses NULL exactly when its school level
\* is not 3 and non-negative otherwise, and for such a row Programs is
\* 0.6 x STEM + 0.4 x gifted with STEM 1.0 for >= 10 AP courses, 0.7 for >= 5,
\* 0.5 for > 0, 0.7 for NULL below high school and 0.3 otherwise, and gifted
\* 1.0 with a gifted program and 0.5 without.
C14_Programs ==
    Scored =>
        \A i \in 1..Len(q_rows) :
            LET r == q_rows[i]
                ap == r.ap_courses
                stem == IF ap # None /\ ap[2] >= 10 THEN 10
                        ELSE IF ap # None /\ ap[2] >= 5 THEN 7
                        ELSE IF ap # None /\ ap[2] > 0 THEN 5
                        ELSE IF ap = None /\ r.school_level # None
                                /\ r.school_level[2] < 3 THEN 7
                        ELSE 3
                gifted == IF r.has_gifted_program = Val(1) THEN 10 ELSE 5
            IN  /\ ap = None <=> r.school_level # Val(3)
                /\ ap # None => ap[2] >= 0
                /\ ProgramsShare(r) = 25 * (6 * stem + 4 * gifted)

\* a scored middle school whose joined AP row counts courses
C14_Witness ==
    /\ q_stage = "scored_schools"
    /\ \E i \in 1..Len(q_rows) :
          /\ q_rows[i].school_level = Val(2)
          /\ q_rows[i].ap_courses = None
          /\ q_rows[i].has_gifted_program = Val(1)
          /\ ProgramsShare(q_rows[i]) = 25 * (6 * 7 + 4 * 10)

----------------------------------------------------------------------------
(* The limits of the query *)

\* C15: whatever limit the caller supplies, the limit of the final SELECT in
\* the query that _build_matching_query builds is at most the limit of the
\* school_data stage, 100.
C15_LimitAtMostPreLimit ==
    built_query[1] = "return" =>
        built_query[2].limit <= built_query[2].candidate_limit

----------------------------------------------------------------------------
(* The pipeline *)

\* the category the thresholds 85 / 70 / 50 give a match_score
CategoryOfMatchScore(m) ==
    IF m >= 850 THEN "Excellent Match"
    ELSE IF m >= 700 THEN "Good Match"
    ELSE IF m >= 500 THEN "Fair Match"
    ELSE "Consider"

\* C16: every school the pipeline hands to generate_school_recommendations
\* carries the match_category that the thresholds 85 / 70 / 50 give its final
\* match_score, so that the schools of the excellent, good and fair lists are
\* labelled Excellent, Good and Fair Match.
C16_CategoryAgreesWithTier ==
    (q_stage = "recommended" /\ rec_ret[2].status = "success") =>
        LET by_category == rec_ret[2].by_category[2] IN
        /\ \A i \in 1..Len(ranked_schools) :
              ranked_schools[i].match_category =
                  Val(CategoryOfMatchScore(ranked_schools[i].match_score[2]))
        /\ \A i \in 1..Len(by_category.excellent) :
              by_category.excellent[i].match_category = Val("Excellent Match")
        /\ \A i \in 1..Len(by_category.good) :
              by_category.good[i].match_category = Val("Good Match")
        /\ \A i \in 1..Len(by_category.fair) :
              by_category.fair[i].match_category = Val("Fair Match")

----------------------------------------------------------------------------
(* The application strategy *)

\* the call returned a strategy
StrategyReturned == rec_ret[1] = "return" /\ rec_ret[2].status = "success"

\* positions of ranked_schools whose charter flag is v
Flagged(v) ==
    {i \in 1..Len(ranked_schools) : Get(ranked_schools[i].charter) = Val(v)}

\* the j-th smallest position of the set P
Position(P, j) == CHOOSE i \in P : Cardinality({k \in P : k <= i}) = j

Min(a, b) == IF a < b THEN a ELSE b

\* C17: in the strategy, top_choice is the school of rank 1, neighborhood_option
\* is the highest ranked school that is not a charter school (charter flag 0),
\* None if there is none, and lottery_schools are the up to three highest
\* ranked charter schools (charter flag 1) in rank order.
C17_StrategyPicks ==
    StrategyReturned =>
        LET strategy == rec_ret[2].application_strategy[2]
            public == Flagged(0)
            charter == Flagged(1)
        IN  /\ strategy.top_choice = Val(ranked_schools[1])
            /\ strategy.neighborhood_option =
                   IF public = {} THEN None
                   ELSE Val(ranked_schools[Position(public, 1)])
            /\ Len(strategy.lottery_schools) = Min(3, Cardinality(charter))
            /\ \A j \in 1..Len(strategy.lottery_schools) :
                   strategy.lottery_schools[j] =
                       ranked_schools[Position(charter, j)]

\* four charter schools ranked above the only public school
C17_Witness ==
    /\ StrategyReturned
    /\ Flagged(1) = {1, 2, 3, 4}
    /\ Flagged(0) = {5}
    /\ rec_ret[2].application_strategy[2].neighborhood_option[2].rank = Val(5)
    /\ Len(rec_ret[2].application_strategy[2].lottery_schools) = 3

\* C18: next_steps holds the three attendance-zone steps when the top choice
\* is a public school (charter flag 0) and the three lottery steps when it is
\* a charter school (charter flag 1), followed by the step to apply to
\* min(3, number of charter schools) charter schools exactly when the list
\* holds a charter school.
C18_NextSteps ==
    StrategyReturned =>
        LET strategy == rec_ret[2].application_strategy[2]
            steps == strategy.next_steps
            charter == Flagged(1)
            apply ==
                IF charter = {} THEN <<>>
                ELSE << <<"4. Apply to charter schools to maximize options",
                          Min(3, Cardinality(charter))>> >>
        IN  /\ 1 \in Flagged(0) =>
                  steps = << "1. Verify you live in the school's attendance boundary",
                             "2. Complete enrollment forms by district deadline",
                             "3. Schedule a school tour to visit" >> \o apply
            /\ 1 \in Flagged(1) =>
                  steps = << "1. Submit lottery application before deadline (typically Jan-Feb)",
                             "2. Have a backup plan (neighborhood school)",
                             "3. Monitor lottery results (typically March-April)" >>
                              \o apply
            /\ Len(steps) = 3 + Len(apply)

\* a public top choice followed by four charter schools
C18_Witness ==
    /\ StrategyReturned
    /\ 1 \in Flagged(0)
    /\ Cardinality(Flagged(1)) = 4
    /\ Len(rec_ret[2].application_strategy[2].next_steps) = 4
    /\ rec_ret[2].application_strategy[2].next_steps[4][2] = 3

----------------------------------------------------------------------------
(* The order of the reasons *)

\* the factor a reason speaks of, in the order the claim fixes; 8 is the
\* generic entry
Factor(reason) ==
    CASE reason[1] \in {"High graduation rate", "Good graduation rate"} -> 1
      [] reason[1] \in {"Small class sizes", "Reasonable class sizes"} -> 2
      [] reason[1] \in {"Strong STEM programs", "Offers AP courses"} -> 3
      [] reason[1] = "Has Gifted & Talented program" -> 4
      [] reason[1] = "Located in" -> 5
      [] reason[1] = "Medium-sized school" -> 6
      [] reason[1] \in {"Public school (neighborhood enrollment)",
                        "Charter school (lottery application required)"} -> 7
      [] reason[1] = "Meets basic quality standards" -> 8

\* C19: the reasons come in the order graduation, class size, STEM/AP, gifted,
\* location, size, admission type, at most one per factor, and the generic
\* entry, when present, is last.
C19_ReasonsInFixedOrder ==
    reasons[1] = "return" =>
        \A i, j \in 1..Len(reasons[2]) :
            i < j => Factor(reasons[2][i]) < Factor(reasons[2][j])

\* a school with a reason for each of the seven factors
C19_Witness ==
    /\ reasons[1] = "return"
    /\ Len(reasons[2]) = 7
    /\ {Factor(reasons[2][i]) : i \in 1..7} = 1..7

----------------------------------------------------------------------------
(* The Springfield scenario *)

\* rank_schools returned the three schools
ScenarioRanked == rank_ret[1] = "return"

\* the ranked school of the given name
Named(name) ==
    rank_ret[2][CHOOSE i \in 1..Len(rank_ret[2]) :
                   rank_ret[2][i].school_name = Val(name)]

ScenarioRanks ==
    /\ Len(rank_ret[2]) = 3
    /\ rank_ret[2][1].school_name = Val("A")
    /\ Named("A").rank = Val(1)
    /\ Named("A").distance_score = Val(1000)
    /\ Named("C").distance_score = Val(1000)
    /\ Named("B").distance_score = Val(500)
    /\ \A n \in {"A", "B", "C"} :
          Named(n).base_match_score =
              Val(ScoringExpression(Named(n)) \div 10)

\* C20 as stated: A is ranked first, A and C have location score 1.0, B has
\* 0.5, and B's match_score is base x 85 + 7.5.
C20_ScenarioAsStated ==
    ScenarioRanked =>
        /\ ScenarioRanks
        /\ Named("B").match_score[2] * 100 =
               Named("B").base_match_score[2] * 85 + 7500

\* C20: A is ranked first, A and C have location score 1.0, B has 0.5, and
\* B's match_score is base x 85 + 7.5 rounded to one decimal place.
C20_Scenario ==
    ScenarioRanked =>
        /\ ScenarioRanks
        /\ LET exact == Named("B").base_match_score[2] * 85 + 7500
               rounded == Named("B").match_score[2] * 100
           IN  exact - 50 <= rounded /\ rounded <= exact + 50

\* the three schools ranked, B handed over first, with a score for B that is
\* not a whole number of tenths
C20_Witness ==
    /\ ScenarioRanked
    /\ schools[1].school_name = Val("B")
    /\ rank_ret[2][1].school_name = Val("A")
    /\ (Named("B").base_match_score[2] * 85) % 100 # 0

----------------------------------------------------------------------------
(* Concurrent requests *)

\* the request has saved its query and runs on
Saved(r) == req_pc[r] \in {"execute", "done"}

\* C21: two concurrent match_schools calls share no location: once a request
\* has saved its query, the file holds that query and nothing else, as it does
\* when the request runs alone.
C21_RequestsShareNoState ==
    \A r \in Requests : Saved(r) => query_file = FileOf(req_query[r][2])

----------------------------------------------------------------------------
(* The refinement loop *)

\* C22: a call of get_insights_and_recommendations returns only after the
\* recommender has generated, the critique agent has evaluated and the
\* recommender has revised, in this order.
C22_ThreeStepsBeforeReturn ==
    ins_ret[1] = "return" =>
        /\ Len(agent_runs) >= 3
        /\ LET n == Len(agent_runs)
           IN  <<agent_runs[n - 2], agent_runs[n - 1], agent_runs[n]>>
                   = <<"recommend", "critique", "revise">>

----------------------------------------------------------------------------
(* query_bigquery *)

\* C23: every dict query_bigquery returns, on success and on every error path,
\* has the keys status, data and row_count.
C23_ResultKeys ==
    \A i \in 1..Len(bq_calls) :
        LET result == bq_calls[i].result
        IN  /\ result.status \in {"success", "error"}
            /\ result.data \in Seq(BqRows)
            /\ result.row_count # Absent

\* the calls that returned status success
Successes == {i \in 1..Len(bq_calls) : bq_calls[i].result.status = "success"}

Latest(S) == CHOOSE i \in S : \A j \in S : j <= i

\* C25: after any sequence of query_bigquery calls on a context, last_bq_query
\* and last_bq_row_count are both unset when no call has succeeded, and
\* otherwise hold the text and the number of rows of the most recent
\* successful call; a call that returns an error changes neither.
C25_StateOfLastSuccess ==
    tool_context # None =>
        LET state == tool_context[2]
        IN  IF Successes = {}
                THEN /\ state.last_bq_query = Absent
                     /\ state.last_bq_row_count = Absent
            ELSE LET last == bq_calls[Latest(Successes)]
                 IN  /\ state.last_bq_query = Val(last.sql_query)
                     /\ state.last_bq_row_count = Val(Len(last.result.data))

\* two successful queries of different text and size, then a failed one
C25_Witness ==
    /\ Len(bq_calls) = 3
    /\ Successes = {1, 2}
    /\ bq_calls[1].sql_query # bq_calls[2].sql_query
    /\ Len(bq_calls[1].result.data) # Len(bq_calls[2].result.data)
    /\ bq_calls[3].sql_query = bq_calls[1].sql_query
    /\ tool_context[2].last_bq_query = Val(bq_calls[2].sql_query)

----------------------------------------------------------------------------
(* The lists of the bundle *)

ExcellentAt(l) == {i \in 1..Len(l) : InExcellent(l[i])}
GoodAt(l) == {i \in 1..Len(l) : InGood(l[i])}
FairAt(l) == {i \in 1..Len(l) : InFair(l[i])}

\* shown holds, in their order in l, the first n of the schools of l at the
\* positions P, or all of them when they are fewer
FirstOf(shown, l, P, n) ==
    /\ Len(shown) = Min(n, Cardinality(P))
    /\ \A k \in 1..Len(shown) :
          \E i \in P : /\ Cardinality({j \in P : j < i}) = k - 1
                       /\ shown[k] = l[i]

\* C24: in a success bundle top_10 is the first min(10, N) schools of the
\* ranked list, and by_category holds the first at most 5 Excellent, 5 Good
\* and 3 Fair schools, each in the order of the ranked list.
C24_TopOfEachTier ==
    (rec_ret # NotCalled /\ rec_ret[2].status = "success") =>
        LET l == ranked_schools
            r == rec_ret[2]
        IN  /\ FirstOf(r.top_10[2], l, 1..Len(l), 10)
            /\ FirstOf(r.by_category[2].excellent, l, ExcellentAt(l), 5)
            /\ FirstOf(r.by_category[2].good, l, GoodAt(l), 5)
            /\ FirstOf(r.by_category[2].fair, l, FairAt(l), 3)

\* more than ten schools, and every tier larger than the list that shows it
C24_Witness ==
    /\ rec_ret # NotCalled /\ rec_ret[2].status = "success"
    /\ Len(ranked_schools) > 10
    /\ Cardinality(ExcellentAt(ranked_schools)) > 5
    /\ Cardinality(GoodAt(ranked_schools)) > 5
    /\ Cardinality(FairAt(ranked_schools)) > 3
    /\ Len(rec_ret[2].top_10[2]) = 10
    /\ Len(rec_ret[2].by_category[2].fair) = 3

----------------------------------------------------------------------------
(* The range of the base score *)

\* C26: every base_match_score the expression produces lies between 0.505 and
\* 0.97, so base_match_score >= 0.40 keeps every scored row and no row the
\* query returns is labelled Consider.
C26_BaseScoreRange ==
    /\ Scored =>
          \A i \in 1..Len(q_rows) :
              /\ q_rows[i].base_match_score[2] >= 505
              /\ q_rows[i].base_match_score[2] <= 970
    /\ q_stage = "scored_schools" =>
          \A i \in 1..Len(q_rows), below \in SUBSET FloatSumsBelow(q_rows) :
              FinalWhere(q_rows[i], below)
    /\ q_stage = "selected" =>
          \A i \in 1..Len(q_rows) : q_rows[i].match_category # Val("Consider")

\* the query returns a row at the lowest score, a high school whose every
\* tier is the lowest
C26_Witness ==
    /\ q_stage = "selected"
    /\ \E i \in 1..Len(q_rows) :
          /\ q_rows[i].base_match_score = Val(505)
          /\ q_rows[i].match_category = Val("Fair Match")
          /\ q_rows[i].charter = None

----------------------------------------------------------------------------
(* Public or charter *)

\* the pipeline has run through generate_school_recommendations with success
Recommended ==
    q_stage = "recommended" /\ rec_ret[1] = "return"
        /\ rec_ret[2].status = "success"

\* what each place makes of a ranked school s
ByLabel(s) ==
    IF s.admission_type = Val("Charter School (Lottery)") THEN "charter"
    ELSE "public"

ByReason(s) ==
    IF \E k \in 1..Len(s.match_reasoning[2]) :
           s.match_reasoning[2][k][1] = "Charter school (lottery application required)"
        THEN "charter"
    ELSE "public"

ByGuidance(strategy) ==
    IF strategy.recommended_approach[1] = "Your top match is a charter school"
        THEN "charter"
    ELSE "public"

\* the list of the strategy that shows s (every charter school is shown while
\* there are at most three)
ByList(s, strategy) ==
    IF \E k \in 1..Len(strategy.lottery_schools) : strategy.lottery_schools[k] = s
        THEN "charter"
    ELSE IF strategy.neighborhood_option = Val(s) THEN "public"
    ELSE "neither"

\* C27: the admission_type label, the admission reason, the lists of the
\* strategy and the guidance for the top choice all classify a school the
\* same way, whether its charter flag is 0, 1 or null; a top choice given
\* charter guidance is in the charter list.
C27_OneClassification ==
    Recommended =>
        LET l == ranked_schools
            strategy == rec_ret[2].application_strategy[2]
        IN  /\ \A i \in 1..Len(l) : ByLabel(l[i]) = ByReason(l[i])
            /\ ByGuidance(strategy) = ByLabel(l[1])
            /\ ByGuidance(strategy) = ByList(l[1], strategy)

----------------------------------------------------------------------------
(* The arguments of rank_schools *)

\* C28: after rank_schools has returned, by either path, the caller's list
\* holds the same objects in the same order and every one of them has the
\* keys and values it had at the call.
C28_ArgumentsUntouched ==
    rs_ret # NotCalled =>
        /\ Len(rs_schools) = Len(schools)
        /\ \A i \in 1..Len(schools) :
              /\ rs_schools[i] = i
              /\ objects[rs_schools[i]] = schools[i]

\* a successful call that turned two schools around: the returned list holds
\* new objects that carry the rank, the argument's objects carry none
C28_Witness ==
    /\ rs_ret # NotCalled /\ rs_ret[2] # rs_schools
    /\ Len(schools) = 2
    /\ objects[rs_ret[2][1]].base_match_score = schools[2].base_match_score
    /\ objects[rs_ret[2][1]].rank = Val(1)
    /\ objects[rs_ret[2][1]].match_score[2] > objects[rs_ret[2][2]].match_score[2]
    /\ \A i \in 1..2 : objects[rs_schools[i]].rank = Absent

----------------------------------------------------------------------------
(* Ranking a ranked list *)

\* both calls have returned and the first one ranked its list
RankedTwice ==
    /\ rerank_ret # NotCalled
    /\ ~RankBodyRaises(schools, student_profile)

\* C29: for a list on which ranking succeeds, ranking the ranked list again
\* with the same profile returns it as it is: the same schools in the same
\* order with the same match_score, rank, distance_score, admission_type and
\* reasoning.
C29_RankingIsIdempotent ==
    RankedTwice =>
        /\ Len(rerank_ret[2]) = Len(rank_ret[2])
        /\ \A i \in 1..Len(rank_ret[2]) :
              LET once == rank_ret[2][i]
                  twice == rerank_ret[2][i]
              IN  /\ twice.ncessch = once.ncessch
                  /\ twice.match_score = once.match_score
                  /\ twice.rank = once.rank
                  /\ twice.distance_score = once.distance_score
                  /\ twice.admission_type = once.admission_type
                  /\ twice.match_reasoning = once.match_reasoning

\* the first call moved the second school to the front, and two calls later
\* it is still there
C29_Witness ==
    /\ RankedTwice
    /\ Len(schools) = 2
    /\ schools[1].base_match_score = Val(510)
    /\ schools[2].base_match_score = Val(700)
    /\ rank_ret[2][1].base_match_score = Val(700)
    /\ rerank_ret[2][1].rank = Val(1)
    /\ rerank_ret[2][2].base_match_score = Val(510)

----------------------------------------------------------------------------
(* The conversation loop *)

\* the event ends the conversation: a quit word once trimmed and lower-cased,
\* or a KeyboardInterrupt
Ending(ev) ==
    \/ ev = <<"raise", "KeyboardInterrupt">>
    \/ ev[1] = "line" /\ Lower(Strip(ev[2])) \in QuitWords

\* the line asks the agent something
Asking(ev) == ev[1] = "line" /\ Strip(ev[2]) # <<>> /\ ~Ending(ev)

\* C30: the loop of run_interactive_mode ends exactly when the trimmed,
\* lower-cased input is quit, exit, bye or q or a KeyboardInterrupt occurs; an
\* empty input is skipped without a call of the agent; any other exception,
\* raised while reading or while handling a turn, is reported and the loop
\* goes on with the same session_id and user_id.
C30_ConversationLoop ==
    LET n == Len(im_events)
        asked == SelectSeq(im_events, Asking)
    IN  /\ im_pc = "ended" <=> (n > 0 /\ Ending(im_events[n]))
        /\ \A i \in 1..(n - 1) : ~Ending(im_events[i])
        /\ Len(im_runs) = Len(asked) - (IF im_pc = "run" THEN 1 ELSE 0)
        /\ \A k \in 1..Len(im_runs) :
              /\ im_runs[k].new_message = Strip(asked[k][2])
              /\ im_runs[k].session_id = im_runs[1].session_id
              /\ im_runs[k].user_id = im_runs[1].user_id
        /\ (n > 0 /\ im_events[n][1] = "line" /\ Strip(im_events[n][2]) = <<>>)
               => im_pc = "read"
        /\ (n > 0 /\ im_events[n][1] = "raise" /\ ~Ending(im_events[n]))
               => (im_pc = "read" /\ im_out = "Error")

\* a blank line, a question whose run raised, and then Exit typed with a
\* capital
C30_Witness ==
    /\ im_pc = "ended"
    /\ Len(im_runs) = 1
    /\ \E i \in 1..Len(im_events) : im_events[i] = <<"raise", "Exception">>
    /\ \E i \in 1..Len(im_events) : im_events[i] = <<"line", <<" ">>>>
    /\ im_events[Len(im_events)] = <<"line", <<"E", "x", "i", "t">>>>

====
